---- MODULE Spec2Model ----
(***************************************************************************)
(* Pain-mapping step of the spine-assessment intake form                   *)
(* (client/src/components/steps/PainMappingStep.tsx) together with the     *)
(* form-state container it writes to.                                      *)
(*                                                                         *)
(* Units.  Hotspot boxes are fractions of the displayed image with at most *)
(* three decimals; the model keeps them in thousandths (0.45 is 450).      *)
(* Distances are compared as exact squares scaled by 2000^2; the code      *)
(* compares Math.sqrt of the same quantities in double precision, which    *)
(* orders them the same way up to rounding of the last bit.                *)
(* Click positions and image sizes are integers of CSS pixels.             *)
(***************************************************************************)
EXTENDS Integers, Sequences, FiniteSets, TLC

VARIABLES
  painAreas,           \* the form container's state: its painAreas sequence
  formData,            \* the container's state as the component's latest render got it
  currentStep,         \* the form container's currentStep
  catalogEmpty,        \* views whose hotspot catalog has no entry
  capture,             \* where the captureBothViews run stands
  shots,               \* history: per label, the view shown when its shot was taken
  painMapImage,        \* the container's painMapImageFront / painMapImageBack
  selectedPainAreaId,  \* useState<string | null>
  currentView,         \* useState<BodyView>
  canvas,              \* the offscreen <canvas>: width, height, image drawn on it
  imgPending,          \* view whose <img> load event is outstanding, or "none"
  now,                 \* latest reading of Date.now()
  issuedIds,           \* history: every id ever given to a record
  emailStateRef,       \* useRef<EmailStatus>: 'idle' | 'sending' | 'sent' | 'error'
  isSavingAssessment,  \* useState<boolean> of the summary step
  submitActionSaving,  \* isSavingAssessment as the registered submit handler closed over it
  attempts,            \* history: the handleFinalSubmit runs that issued a save request
  isSubmissionSuccessful,  \* the container's isSubmissionSuccessful
  isInitialProcessingCompleteForSubmit,  \* the container's flag of that name
  contextAiSummary,    \* the container's aiSummary, "none" for null
  aiSummaryError,      \* whether the summary step holds an AI summary error
  request,             \* the request handed to an upload route
  response,            \* the status of the route's response, 0 before it
  finalSessionDir,     \* the session directory the route worked out
  writtenPath,         \* the path of the file the route wrote
  last                 \* history: the latest handler run, its input and outcome

vars == <<painAreas, formData, currentStep, catalogEmpty, capture, shots,
          painMapImage, selectedPainAreaId, currentView, canvas, imgPending,
          now, issuedIds, emailStateRef, isSavingAssessment,
          submitActionSaving, attempts, isSubmissionSuccessful,
          isInitialProcessingCompleteForSubmit, contextAiSummary,
          aiSummaryError, request, response, finalSessionDir, writtenPath,
          last>>

\* The state of the summary step and what it keeps in the container.
summaryVars == <<emailStateRef, isSavingAssessment, submitActionSaving,
                 attempts, isSubmissionSuccessful,
                 isInitialProcessingCompleteForSubmit, contextAiSummary,
                 aiSummaryError>>

\* What no handler of the pain-mapping component writes.
\* The server's upload routes.
serverVars == <<request, response, finalSessionDir, writtenPath>>

outerVars == <<currentStep, catalogEmpty, capture, shots, painMapImage,
               summaryVars, serverVars>>

\* What no handler of the summary step writes.
painMapVars == <<painAreas, formData, selectedPainAreaId, currentView, canvas,
                 imgPending, now, issuedIds, currentStep, catalogEmpty,
                 capture, shots, painMapImage>>

\* ---------------------------------------------------------------- bounds
\* Displayed size of the <img> (getBoundingClientRect), in CSS pixels.
ImageWidth == 8
ImageHeight == 12
\* naturalWidth / naturalHeight of the two body images.
NaturalWidth == 6
NaturalHeight == 8
\* Largest Date.now() reading.
MaxClock == 1
\* Largest number of marks in the store.
MaxAreas == 2
\* How far outside 0..10 the intensity inputs reach.
Overshoot == 1
\* Largest number of handleFinalSubmit runs that issue a save request.
MaxAttempts == 3
\* Longest view, formSessionId and original file name in a request.
MaxViewLen == 7
MaxIdLen == 1
MaxNameLen == 2

\* ------------------------------------------------------- program constants
DefaultCanvasWidth == 300
DefaultCanvasHeight == 150
AlphaThreshold == 10
DefaultIntensity == 5
SliderMin == 0
SliderMax == 10
totalSteps == 7
PainMappingStepNo == 5

null == <<>>
Views == {"front", "back"}

\* HS for boxes whose vertical values are fractions of the image's width,
\* the image being twice as high as wide.
HSByWidth(id, name, x, y, width, height, isDetail) ==
  [id |-> id, name |-> name, x |-> x, y |-> 2 * y, width |-> width,
   height |-> 2 * height, isDetail |-> isDetail]

HS(id, name, x, y, width, height, isDetail) ==
  [id |-> id, name |-> name, x |-> x, y |-> y, width |-> width,
   height |-> height, isDetail |-> isDetail]

frontHotspots ==
  <<
  HS(1, "Forehead (Central Superior)", 450, 5, 100, 20, FALSE),
  HS(1, "Forehead (Central Inferior)", 450, 25, 100, 20, FALSE),
  HS(1, "Forehead (Left Superior)", 370, 5, 80, 20, FALSE),
  HS(1, "Forehead (Left Inferior)", 370, 25, 80, 20, FALSE),
  HS(1, "Forehead (Right Superior)", 550, 5, 80, 20, FALSE),
  HS(1, "Forehead (Right Inferior)", 550, 25, 80, 20, FALSE),
  HS(1, "Left Temple (Superior)", 330, 30, 50, 20, FALSE),
  HS(1, "Left Temple (Inferior)", 330, 50, 50, 20, FALSE),
  HS(1, "Right Temple (Superior)", 620, 30, 50, 20, FALSE),
  HS(1, "Right Temple (Inferior)", 620, 50, 50, 20, FALSE),
  HS(1, "Left Eyebrow", 380, 45, 70, 10, FALSE),
  HS(1, "Right Eyebrow", 550, 45, 70, 10, FALSE),
  HS(1, "Glabella (Between Eyebrows)", 475, 50, 50, 10, FALSE),
  HS(1, "Left Upper Eyelid", 390, 58, 60, 10, FALSE),
  HS(1, "Right Upper Eyelid", 550, 58, 60, 10, FALSE),
  HS(1, "Left Lower Eyelid", 390, 68, 60, 10, FALSE),
  HS(1, "Right Lower Eyelid", 550, 68, 60, 10, FALSE),
  HS(1, "Nose (Bridge)", 475, 70, 50, 15, FALSE),
  HS(1, "Nose (Dorsum)", 475, 85, 50, 15, FALSE),
  HS(1, "Nose (Left Ala)", 450, 95, 30, 20, FALSE),
  HS(1, "Nose (Right Ala)", 520, 95, 30, 20, FALSE),
  HS(1, "Nose (Tip)", 485, 105, 30, 10, FALSE),
  HS(1, "Left Cheek (Zygomatic Arch)", 350, 75, 100, 20, FALSE),
  HS(1, "Right Cheek (Zygomatic Arch)", 550, 75, 100, 20, FALSE),
  HS(1, "Left Cheek (Buccal Mid)", 360, 95, 100, 25, FALSE),
  HS(1, "Right Cheek (Buccal Mid)", 540, 95, 100, 25, FALSE),
  HS(1, "Philtrum (Above Upper Lip)", 475, 110, 50, 10, FALSE),
  HS(1, "Upper Lip", 455, 120, 90, 10, FALSE),
  HS(1, "Lower Lip", 455, 130, 90, 10, FALSE),
  HS(1, "Chin (Mentum)", 465, 140, 70, 15, FALSE),
  HS(1, "Left Mandible (Angle)", 350, 125, 50, 30, FALSE),
  HS(1, "Right Mandible (Angle)", 600, 125, 50, 30, FALSE),
  HS(2, "Submental Triangle (Under Chin)", 460, 150, 80, 15, FALSE),
  HS(2, "Anterior Neck (Hyoid Area)", 460, 165, 80, 15, FALSE),
  HS(2, "Anterior Neck (Thyroid Cartilage)", 460, 180, 80, 15, FALSE),
  HS(2, "Anterior Neck (Left Carotid Triangle)", 400, 160, 60, 30, FALSE),
  HS(2, "Anterior Neck (Right Carotid Triangle)", 540, 160, 60, 30, FALSE),
  HS(2, "Suprasternal Notch", 475, 195, 50, 10, FALSE),
  HS(3, "Left Sternoclavicular Joint", 430, 195, 40, 20, FALSE),
  HS(3, "Left Clavicle (Mid)", 350, 190, 70, 20, FALSE),
  HS(3, "Left Acromioclavicular Joint", 280, 195, 50, 20, FALSE),
  HS(4, "Right Sternoclavicular Joint", 530, 195, 40, 20, FALSE),
  HS(4, "Right Clavicle (Mid)", 580, 190, 70, 20, FALSE),
  HS(4, "Right Acromioclavicular Joint", 670, 195, 50, 20, FALSE),
  HS(5, "Manubrium", 475, 210, 50, 30, FALSE),
  HS(5, "Sternal Body (Upper)", 475, 240, 50, 40, FALSE),
  HS(5, "Sternal Body (Lower)", 475, 280, 50, 40, FALSE),
  HS(6, "Left Pectoral (Superior Medial)", 400, 220, 70, 40, FALSE),
  HS(6, "Left Pectoral (Superior Lateral)", 290, 220, 110, 40, FALSE),
  HS(6, "Left Pectoral (Inferior Medial)", 400, 260, 70, 40, FALSE),
  HS(6, "Left Pectoral (Inferior Lateral)", 290, 260, 110, 40, FALSE),
  HS(7, "Right Pectoral (Superior Medial)", 530, 220, 70, 40, FALSE),
  HS(7, "Right Pectoral (Superior Lateral)", 600, 220, 110, 40, FALSE),
  HS(7, "Right Pectoral (Inferior Medial)", 530, 260, 70, 40, FALSE),
  HS(7, "Right Pectoral (Inferior Lateral)", 600, 260, 110, 40, FALSE),
  HS(12, "Epigastrium (Central)", 460, 320, 80, 40, FALSE),
  HS(13, "Left Costal Margin (Upper Abdomen)", 350, 320, 100, 50, FALSE),
  HS(14, "Right Costal Margin (Upper Abdomen)", 550, 320, 100, 50, FALSE),
  HS(15, "Umbilicus", 480, 380, 40, 30, FALSE),
  HS(16, "Left Flank (Mid Abdomen)", 350, 370, 100, 60, FALSE),
  HS(17, "Right Flank (Mid Abdomen)", 550, 370, 100, 60, FALSE),
  HS(18, "Left Lower Abdomen (Inguinal Ligament Area)", 370, 440, 80, 40, FALSE),
  HS(19, "Right Lower Abdomen (Inguinal Ligament Area)", 550, 440, 80, 40, FALSE),
  HS(20, "Pubic Symphysis Area", 470, 490, 60, 30, FALSE),
  HS(8, "Left Shoulder (Deltoid - Anterior)", 260, 200, 60, 50, FALSE),
  HS(8, "Left Biceps (Short Head)", 250, 250, 50, 80, FALSE),
  HS(8, "Left Biceps (Long Head)", 220, 270, 40, 80, FALSE),
  HS(8, "Left Elbow Crease (Medial)", 220, 360, 30, 30, FALSE),
  HS(8, "Left Elbow Crease (Lateral)", 180, 360, 30, 30, FALSE),
  HS(9, "Right Shoulder (Deltoid - Anterior)", 680, 200, 60, 50, FALSE),
  HS(9, "Right Biceps (Short Head)", 700, 250, 50, 80, FALSE),
  HS(9, "Right Biceps (Long Head)", 740, 270, 40, 80, FALSE),
  HS(9, "Right Elbow Crease (Medial)", 750, 360, 30, 30, FALSE),
  HS(9, "Right Elbow Crease (Lateral)", 790, 360, 30, 30, FALSE),
  HS(10, "Left Forearm (Volar - Proximal Medial)", 200, 400, 40, 60, FALSE),
  HS(10, "Left Forearm (Volar - Proximal Lateral)", 160, 400, 40, 60, FALSE),
  HS(10, "Left Forearm (Volar - Distal Medial)", 190, 460, 40, 60, FALSE),
  HS(10, "Left Forearm (Volar - Distal Lateral)", 150, 460, 40, 60, FALSE),
  HS(10, "Left Wrist (Palmar Crease)", 170, 520, 50, 20, FALSE),
  HS(10, "Left Palm (Base of Thumb)", 150, 540, 30, 30, FALSE),
  HS(10, "Left Palm (Base of Pinky)", 190, 550, 20, 30, FALSE),
  HS(10, "Left Palm (Center)", 170, 560, 30, 30, FALSE),
  HS(10, "Left Thumb (Volar)", 130, 580, 20, 50, FALSE),
  HS(10, "Left Index Finger (Volar)", 140, 610, 20, 50, FALSE),
  HS(10, "Left Middle Finger (Volar)", 160, 620, 20, 50, FALSE),
  HS(10, "Left Ring Finger (Volar)", 180, 610, 20, 50, FALSE),
  HS(10, "Left Pinky Finger (Volar)", 200, 600, 20, 50, FALSE),
  HS(11, "Right Forearm (Volar - Proximal Medial)", 760, 400, 40, 60, FALSE),
  HS(11, "Right Forearm (Volar - Proximal Lateral)", 800, 400, 40, 60, FALSE),
  HS(11, "Right Forearm (Volar - Distal Medial)", 770, 460, 40, 60, FALSE),
  HS(11, "Right Forearm (Volar - Distal Lateral)", 810, 460, 40, 60, FALSE),
  HS(11, "Right Wrist (Palmar Crease)", 780, 520, 50, 20, FALSE),
  HS(11, "Right Palm (Base of Thumb)", 820, 540, 30, 30, FALSE),
  HS(11, "Right Palm (Base of Pinky)", 780, 550, 20, 30, FALSE),
  HS(11, "Right Palm (Center)", 800, 560, 30, 30, FALSE),
  HS(11, "Right Thumb (Volar)", 850, 580, 20, 50, FALSE),
  HS(11, "Right Index Finger (Volar)", 840, 610, 20, 50, FALSE),
  HS(11, "Right Middle Finger (Volar)", 820, 620, 20, 50, FALSE),
  HS(11, "Right Ring Finger (Volar)", 800, 610, 20, 50, FALSE),
  HS(11, "Right Pinky Finger (Volar)", 780, 600, 20, 50, FALSE),
  HS(21, "Left Hip (Greater Trochanter Area - Anterior)", 280, 490, 60, 60, FALSE),
  HS(21, "Left Thigh (Anterior Superior)", 330, 540, 100, 70, FALSE),
  HS(21, "Left Thigh (Anterior Medial)", 380, 600, 60, 100, FALSE),
  HS(21, "Left Thigh (Anterior Lateral)", 290, 600, 60, 100, FALSE),
  HS(21, "Left Knee (Suprapatellar)", 340, 690, 90, 30, FALSE),
  HS(21, "Left Patella", 345, 720, 80, 40, FALSE),
  HS(21, "Left Knee (Infrapatellar Medial)", 380, 760, 40, 30, FALSE),
  HS(21, "Left Knee (Infrapatellar Lateral)", 310, 760, 40, 30, FALSE),
  HS(22, "Right Hip (Greater Trochanter Area - Anterior)", 660, 490, 60, 60, FALSE),
  HS(22, "Right Thigh (Anterior Superior)", 570, 540, 100, 70, FALSE),
  HS(22, "Right Thigh (Anterior Medial)", 560, 600, 60, 100, FALSE),
  HS(22, "Right Thigh (Anterior Lateral)", 650, 600, 60, 100, FALSE),
  HS(22, "Right Knee (Suprapatellar)", 570, 690, 90, 30, FALSE),
  HS(22, "Right Patella", 575, 720, 80, 40, FALSE),
  HS(22, "Right Knee (Infrapatellar Medial)", 580, 760, 40, 30, FALSE),
  HS(22, "Right Knee (Infrapatellar Lateral)", 650, 760, 40, 30, FALSE),
  HS(23, "Left Shin (Tibial Tuberosity)", 350, 790, 70, 30, FALSE),
  HS(23, "Left Shin (Anteromedial)", 370, 820, 60, 80, FALSE),
  HS(23, "Left Shin (Anterolateral)", 300, 820, 60, 80, FALSE),
  HS(23, "Left Ankle (Medial Malleolus - Anterior)", 380, 900, 30, 30, FALSE),
  HS(23, "Left Ankle (Lateral Malleolus - Anterior)", 300, 900, 30, 30, FALSE),
  HS(23, "Left Foot (Dorsum - Navicular/Cuneiforms)", 350, 925, 60, 20, FALSE),
  HS(23, "Left Foot (Dorsum - Cuboid/Metatarsals)", 300, 930, 50, 20, FALSE),
  HS(23, "Left Hallux (Big Toe - Dorsal)", 370, 950, 30, 30, FALSE),
  HS(23, "Left Toes 2-5 (Dorsal)", 310, 955, 50, 30, FALSE),
  HS(24, "Right Shin (Tibial Tuberosity)", 580, 790, 70, 30, FALSE),
  HS(24, "Right Shin (Anteromedial)", 570, 820, 60, 80, FALSE),
  HS(24, "Right Shin (Anterolateral)", 640, 820, 60, 80, FALSE),
  HS(24, "Right Ankle (Medial Malleolus - Anterior)", 590, 900, 30, 30, FALSE),
  HS(24, "Right Ankle (Lateral Malleolus - Anterior)", 670, 900, 30, 30, FALSE),
  HS(24, "Right Foot (Dorsum - Navicular/Cuneiforms)", 590, 925, 60, 20, FALSE),
  HS(24, "Right Foot (Dorsum - Cuboid/Metatarsals)", 650, 930, 50, 20, FALSE),
  HS(24, "Right Hallux (Big Toe - Dorsal)", 600, 950, 30, 30, FALSE),
  HS(24, "Right Toes 2-5 (Dorsal)", 640, 955, 50, 30, FALSE)
  >>

backHotspots ==
  <<
  HS(25, "Vertex (Top of Head - Posterior)", 450, 5, 100, 20, FALSE),
  HS(25, "Occiput (Superior Nuchal Line - Left)", 400, 25, 70, 30, FALSE),
  HS(25, "Occiput (Superior Nuchal Line - Right)", 530, 25, 70, 30, FALSE),
  HS(25, "Occiput (Inion/External Occipital Protuberance)", 475, 50, 50, 20, FALSE),
  HS(25, "Posterior Neck (Suboccipital - Left)", 420, 70, 60, 30, FALSE),
  HS(25, "Posterior Neck (Suboccipital - Right)", 520, 70, 60, 30, FALSE),
  HS(25, "Cervical Spine (C2-C4 Spinous Processes)", 475, 100, 50, 30, FALSE),
  HS(25, "Cervical Spine (C5-C7 Spinous Processes)", 475, 130, 50, 30, FALSE),
  HS(25, "Posterior Neck (Lateral - Left)", 390, 100, 60, 50, FALSE),
  HS(25, "Posterior Neck (Lateral - Right)", 550, 100, 60, 50, FALSE),
  HS(26, "Left Acromion (Posterior)", 280, 160, 50, 30, FALSE),
  HS(26, "Left Supraspinatus Area", 330, 170, 80, 40, FALSE),
  HS(26, "Left Scapular Spine", 300, 210, 120, 20, FALSE),
  HS(26, "Left Infraspinatus Area", 320, 230, 100, 60, FALSE),
  HS(26, "Left Teres Major/Minor Area", 280, 250, 70, 50, FALSE),
  HS(27, "Right Acromion (Posterior)", 670, 160, 50, 30, FALSE),
  HS(27, "Right Supraspinatus Area", 590, 170, 80, 40, FALSE),
  HS(27, "Right Scapular Spine", 580, 210, 120, 20, FALSE),
  HS(27, "Right Infraspinatus Area", 580, 230, 100, 60, FALSE),
  HS(27, "Right Teres Major/Minor Area", 650, 250, 70, 50, FALSE),
  HS(28, "Left Deltoid (Posterior Head)", 280, 190, 60, 60, FALSE),
  HS(28, "Left Triceps (Lateral Head)", 250, 250, 50, 90, FALSE),
  HS(28, "Left Triceps (Long Head)", 290, 260, 50, 90, FALSE),
  HS(29, "Right Deltoid (Posterior Head)", 660, 190, 60, 60, FALSE),
  HS(29, "Right Triceps (Lateral Head)", 700, 250, 50, 90, FALSE),
  HS(29, "Right Triceps (Long Head)", 660, 260, 50, 90, FALSE),
  HS(30, "Left Olecranon (Elbow Tip)", 240, 350, 40, 30, FALSE),
  HS(30, "Left Forearm (Dorsal - Proximal Ulnar)", 230, 380, 40, 60, FALSE),
  HS(30, "Left Forearm (Dorsal - Proximal Radial)", 190, 390, 40, 60, FALSE),
  HS(30, "Left Forearm (Dorsal - Distal Ulnar)", 220, 440, 40, 70, FALSE),
  HS(30, "Left Forearm (Dorsal - Distal Radial)", 180, 450, 40, 70, FALSE),
  HS(31, "Right Olecranon (Elbow Tip)", 720, 350, 40, 30, FALSE),
  HS(31, "Right Forearm (Dorsal - Proximal Ulnar)", 730, 380, 40, 60, FALSE),
  HS(31, "Right Forearm (Dorsal - Proximal Radial)", 770, 390, 40, 60, FALSE),
  HS(31, "Right Forearm (Dorsal - Distal Ulnar)", 740, 440, 40, 70, FALSE),
  HS(31, "Right Forearm (Dorsal - Distal Radial)", 780, 450, 40, 70, FALSE),
  HS(32, "Left Wrist (Dorsum)", 200, 510, 50, 30, FALSE),
  HS(32, "Left Hand (Dorsum - Metacarpals)", 180, 540, 60, 50, FALSE),
  HS(32, "Left Thumb (Dorsal)", 150, 570, 20, 40, FALSE),
  HS(32, "Left Fingers 2-5 (Dorsal)", 170, 590, 50, 50, FALSE),
  HS(33, "Right Wrist (Dorsum)", 750, 510, 50, 30, FALSE),
  HS(33, "Right Hand (Dorsum - Metacarpals)", 760, 540, 60, 50, FALSE),
  HS(33, "Right Thumb (Dorsal)", 830, 570, 20, 40, FALSE),
  HS(33, "Right Fingers 2-5 (Dorsal)", 780, 590, 50, 50, FALSE),
  HS(34, "Thoracic Spine (T1-T2 - Left Paraspinal)", 475, 160, 25, 40, FALSE),
  HS(34, "Thoracic Spine (T3-T5 - Left Paraspinal)", 475, 200, 25, 50, FALSE),
  HS(34, "Thoracic Spine (T6-T9 - Left Paraspinal)", 475, 250, 25, 70, FALSE),
  HS(34, "Thoracic Spine (T10-T12 - Left Paraspinal)", 475, 320, 25, 60, FALSE),
  HS(34, "Left Upper Trapezius", 380, 160, 80, 60, FALSE),
  HS(34, "Left Mid Trapezius/Rhomboids", 400, 220, 70, 80, FALSE),
  HS(34, "Left Upper Trapezius (Superior Medial)", 420, 150, 40, 30, FALSE),
  HS(34, "Left Upper Trapezius (Superior Lateral)", 370, 150, 40, 30, FALSE),
  HS(34, "Left Upper Trapezius (Inferior Medial)", 420, 190, 40, 30, FALSE),
  HS(34, "Left Upper Trapezius (Inferior Lateral)", 370, 190, 40, 30, FALSE),
  HS(34, "Left Mid Traps (Superior Medial)", 430, 210, 35, 40, FALSE),
  HS(34, "Left Mid Traps (Superior Lateral)", 390, 210, 35, 40, FALSE),
  HS(34, "Left Mid Traps (Inferior Medial)", 430, 260, 35, 40, FALSE),
  HS(34, "Left Mid Traps (Inferior Lateral)", 390, 260, 35, 40, FALSE),
  HS(35, "Thoracic Spine (T1-T2 - Right Paraspinal)", 500, 160, 25, 40, FALSE),
  HS(35, "Thoracic Spine (T3-T5 - Right Paraspinal)", 500, 200, 25, 50, FALSE),
  HS(35, "Thoracic Spine (T6-T9 - Right Paraspinal)", 500, 250, 25, 70, FALSE),
  HS(35, "Thoracic Spine (T10-T12 - Right Paraspinal)", 500, 320, 25, 60, FALSE),
  HS(35, "Right Upper Trapezius", 540, 160, 80, 60, FALSE),
  HS(35, "Right Mid Trapezius/Rhomboids", 530, 220, 70, 80, FALSE),
  HS(35, "Right Upper Trapezius (Superior Medial)", 550, 150, 40, 30, FALSE),
  HS(35, "Right Upper Trapezius (Superior Lateral)", 600, 150, 40, 30, FALSE),
  HS(35, "Right Upper Trapezius (Inferior Medial)", 550, 190, 40, 30, FALSE),
  HS(35, "Right Upper Trapezius (Inferior Lateral)", 600, 190, 40, 30, FALSE),
  HS(35, "Right Mid Traps (Superior Medial)", 530, 210, 35, 40, FALSE),
  HS(35, "Right Mid Traps (Superior Lateral)", 570, 210, 35, 40, FALSE),
  HS(35, "Right Mid Traps (Inferior Medial)", 530, 260, 35, 40, FALSE),
  HS(35, "Right Mid Traps (Inferior Lateral)", 570, 260, 35, 40, FALSE),
  HS(36, "Left Latissimus Dorsi (Upper Back)", 330, 280, 120, 100, FALSE),
  HS(36, "Left Lower Back (Flank - Thoracolumbar)", 350, 380, 100, 60, FALSE),
  HS(37, "Right Latissimus Dorsi (Upper Back)", 550, 280, 120, 100, FALSE),
  HS(37, "Right Lower Back (Flank - Thoracolumbar)", 550, 380, 100, 60, FALSE),
  HS(38, "Lumbar Spine (L1-L3 - Left Paraspinal)", 475, 390, 25, 50, FALSE),
  HS(38, "Lumbar Spine (L4-L5 - Left Paraspinal)", 475, 440, 25, 40, FALSE),
  HS(38, "Left Lumbar Erector Spinae", 410, 390, 60, 90, FALSE),
  HS(38, "L Gluteal (Superior)", 350, 480, 100, 50, FALSE),
  HS(38, "L Gluteal (Mid-Lateral)", 290, 510, 70, 70, FALSE),
  HS(38, "L Gluteal (Mid-Medial)", 360, 530, 80, 60, FALSE),
  HS(38, "L Ischial Tuberosity Area", 380, 580, 60, 30, FALSE),
  HS(38, "L UpperOuterLumbar S1", 390, 370, 10, 10, FALSE),
  HS(38, "L UpperOuterLumbar S2", 400, 370, 10, 10, FALSE),
  HS(38, "L UpperOuterLumbar S3", 410, 370, 10, 10, FALSE),
  HS(38, "L UpperOuterLumbar S4", 420, 370, 10, 10, FALSE),
  HS(38, "L UpperOuterLumbar S5", 390, 380, 10, 10, FALSE),
  HS(38, "L UpperOuterLumbar S6", 400, 380, 10, 10, FALSE),
  HS(38, "L UpperOuterLumbar S7", 410, 380, 10, 10, FALSE),
  HS(38, "L UpperOuterLumbar S8", 420, 380, 10, 10, FALSE),
  HS(38, "L UpperOuterLumbar S9", 390, 390, 10, 10, FALSE),
  HS(38, "L UpperOuterLumbar S10", 400, 390, 10, 10, FALSE),
  HS(38, "L UpperOuterLumbar S11", 410, 390, 10, 10, FALSE),
  HS(38, "L UpperOuterLumbar S12", 420, 390, 10, 10, FALSE),
  HS(38, "L UpperOuterLumbar S13", 390, 400, 10, 10, FALSE),
  HS(38, "L UpperOuterLumbar S14", 400, 400, 10, 10, FALSE),
  HS(38, "L UpperOuterLumbar S15", 410, 400, 10, 10, FALSE),
  HS(38, "L UpperOuterLumbar S16", 420, 400, 10, 10, FALSE),
  HS(38, "L UpperOuterLumbar S17", 430, 385, 10, 10, FALSE),
  HS(38, "L UpperOuterLumbar S18", 430, 395, 10, 10, FALSE),
  HS(38, "L UpperOuterLumbar S19", 385, 380, 10, 10, FALSE),
  HS(38, "L UpperOuterLumbar S20", 385, 390, 10, 10, FALSE),
  HS(38, "L Lumbar TopOuter A1", 390, 375, 10, 10, FALSE),
  HS(38, "L Lumbar TopOuter A2", 400, 375, 10, 10, FALSE),
  HS(38, "L Lumbar TopOuter A3", 390, 385, 10, 10, FALSE),
  HS(38, "L Lumbar TopOuter A4", 400, 385, 10, 10, FALSE),
  HS(38, "L Lumbar TopOuter B1", 380, 390, 10, 10, FALSE),
  HS(38, "L Lumbar TopOuter B2", 390, 390, 10, 10, FALSE),
  HS(38, "L Lumbar TopOuter B3", 380, 400, 10, 10, FALSE),
  HS(38, "L Lumbar TopOuter B4", 390, 400, 10, 10, FALSE),
  HS(38, "L Lumbar UpperLat C1", 395, 405, 10, 10, FALSE),
  HS(38, "L Lumbar UpperLat C2", 405, 405, 10, 10, FALSE),
  HS(38, "L Lumbar UpperLat C3", 395, 415, 10, 10, FALSE),
  HS(38, "L Lumbar UpperLat C4", 405, 415, 10, 10, FALSE),
  HS(38, "L Lumbar ES (SupLat 1)", 400, 380, 15, 15, FALSE),
  HS(38, "L Lumbar ES (SupLat 2)", 415, 380, 15, 15, FALSE),
  HS(38, "L Lumbar ES (SupLat 3)", 400, 395, 15, 15, FALSE),
  HS(38, "L Lumbar ES (SupMid 1)", 430, 380, 15, 15, FALSE),
  HS(38, "L Lumbar ES (SupMid 2)", 445, 380, 15, 15, FALSE),
  HS(38, "L Lumbar ES (SupMid 3)", 430, 395, 15, 15, FALSE),
  HS(38, "L Lumbar ES (MidLat 1)", 400, 410, 15, 15, FALSE),
  HS(38, "L Lumbar ES (MidLat 2)", 415, 410, 15, 15, FALSE),
  HS(38, "L Lumbar ES (MidLat 3)", 400, 425, 15, 15, FALSE),
  HS(38, "L Lumbar Para (Sup 1)", 450, 380, 12, 10, FALSE),
  HS(38, "L Lumbar Para (Sup 2)", 462, 380, 13, 10, FALSE),
  HS(38, "L Lumbar Para (Sup 3)", 450, 390, 12, 10, FALSE),
  HS(38, "L Lumbar Para (Mid 1)", 450, 400, 12, 10, FALSE),
  HS(38, "L Lumbar Para (Mid 2)", 462, 400, 13, 10, FALSE),
  HS(38, "L Lumbar Para (Mid 3)", 450, 410, 12, 10, FALSE),
  HS(38, "L Lumbar (TL 1a)", 400, 370, 10, 10, FALSE),
  HS(38, "L Lumbar (TL 1b)", 410, 370, 10, 10, FALSE),
  HS(38, "L Lumbar (TL 2a)", 420, 370, 10, 10, FALSE),
  HS(38, "L Lumbar (TL 2b)", 430, 370, 10, 10, FALSE),
  HS(38, "L Lumbar (TL 3a)", 400, 380, 10, 10, FALSE),
  HS(38, "L Lumbar (TL 3b)", 410, 380, 10, 10, FALSE),
  HS(38, "L Lumbar (TC 1a)", 440, 370, 10, 10, FALSE),
  HS(38, "L Lumbar (TC 1b)", 450, 370, 10, 10, FALSE),
  HS(38, "L Lumbar (TC 2a)", 460, 370, 10, 10, FALSE),
  HS(38, "L Lumbar (TC 2b)", 470, 370, 10, 10, FALSE),
  HS(38, "L Glute SupLat (A1)", 300, 470, 20, 15, FALSE),
  HS(38, "L Glute SupLat (A2)", 320, 470, 20, 15, FALSE),
  HS(38, "L Glute SupLat (B1)", 330, 475, 20, 15, FALSE),
  HS(38, "L Glute SupLat (B2)", 350, 475, 20, 15, FALSE),
  HS(38, "L Glute SupMidLat (1)", 290, 490, 25, 15, FALSE),
  HS(38, "L Glute SupMidLat (2)", 315, 490, 25, 15, FALSE),
  HS(38, "L Glute UpOut (1)", 280, 480, 20, 15, FALSE),
  HS(38, "L Glute UpOut (2)", 300, 480, 20, 15, FALSE),
  HS(38, "L Glute TL (1a)", 280, 470, 10, 10, FALSE),
  HS(38, "L Glute TL (1b)", 290, 470, 10, 10, FALSE),
  HS(38, "L Glute TL (2a)", 300, 460, 10, 10, FALSE),
  HS(38, "L Glute TL (2b)", 310, 460, 10, 10, FALSE),
  HS(38, "L Glute TL (3a)", 320, 470, 10, 10, FALSE),
  HS(38, "L Glute TL (3b)", 330, 470, 10, 10, FALSE),
  HS(38, "L Glute TL (4a)", 340, 460, 10, 10, FALSE),
  HS(38, "L Glute TL (4b)", 350, 460, 10, 10, FALSE),
  HS(38, "L Glute TL (5a)", 310, 485, 10, 10, FALSE),
  HS(38, "L Glute TL (5b)", 320, 485, 10, 10, FALSE),
  HS(38, "L Glute TL (6a)", 330, 495, 10, 10, FALSE),
  HS(38, "L Glute TL (6b)", 340, 495, 10, 10, FALSE),
  HS(38, "L Glute (Superior Medial 1)", 360, 480, 20, 15, FALSE),
  HS(38, "L Glute (Superior Medial 2)", 380, 480, 20, 15, FALSE),
  HS(38, "L Glute (Superior Medial 3)", 370, 490, 20, 15, FALSE),
  HS(38, "L UpperLateralThigh S1", 280, 500, 10, 20, FALSE),
  HS(38, "L UpperLateralThigh S2", 290, 500, 10, 20, FALSE),
  HS(38, "L UpperLateralThigh S3", 300, 500, 10, 20, FALSE),
  HS(38, "L UpperLateralThigh S4", 280, 520, 10, 20, FALSE),
  HS(38, "L UpperLateralThigh S5", 290, 520, 10, 20, FALSE),
  HS(38, "L UpperLateralThigh S6", 300, 520, 10, 20, FALSE),
  HS(38, "L UpperLateralThigh S7", 280, 540, 10, 20, FALSE),
  HS(38, "L UpperLateralThigh S8", 290, 540, 10, 20, FALSE),
  HS(38, "L UpperLateralThigh S9", 300, 540, 10, 20, FALSE),
  HS(38, "L UpperLateralThigh S10", 280, 560, 10, 20, FALSE),
  HS(38, "L UpperLateralThigh S11", 290, 560, 10, 20, FALSE),
  HS(38, "L UpperLateralThigh S12", 300, 560, 10, 20, FALSE),
  HS(38, "L UpperLateralThigh S13", 280, 580, 10, 20, FALSE),
  HS(38, "L UpperLateralThigh S14", 290, 580, 10, 20, FALSE),
  HS(38, "L UpperLateralThigh S15", 300, 580, 10, 20, FALSE),
  HS(38, "Left Posterior Superior Iliac Spine (PSIS)", 420, 470, 40, 30, FALSE),
  HS(38, "L Sacrum TopOuter A1", 400, 455, 10, 10, FALSE),
  HS(38, "L Sacrum TopOuter A2", 410, 455, 10, 10, FALSE),
  HS(38, "L Sacrum TopOuter A3", 400, 465, 10, 10, FALSE),
  HS(38, "L Sacrum TopOuter A4", 410, 465, 10, 10, FALSE),
  HS(38, "L Sacrum UpperLat B1", 415, 470, 10, 10, FALSE),
  HS(38, "L Sacrum UpperLat B2", 425, 470, 10, 10, FALSE),
  HS(38, "L Sacrum UpperLat B3", 415, 480, 10, 10, FALSE),
  HS(38, "L Sacrum UpperLat B4", 425, 480, 10, 10, FALSE),
  HS(38, "L PSIS (Sup 1)", 420, 460, 20, 10, FALSE),
  HS(38, "L PSIS (Sup 2)", 440, 460, 20, 10, FALSE),
  HS(38, "L PSIS (Lat 1)", 400, 470, 10, 15, FALSE),
  HS(38, "L PSIS (Lat 2)", 410, 470, 10, 15, FALSE),
  HS(38, "L SI Area (Sup 1)", 440, 465, 15, 12, FALSE),
  HS(38, "L SI Area (Sup 2)", 455, 465, 15, 13, FALSE),
  HS(38, "L Sacral Ala (Sup 1)", 450, 475, 12, 10, FALSE),
  HS(38, "L Sacral Ala (Sup 2)", 462, 475, 13, 10, FALSE),
  HS(38, "L Sacrum (TL 1a)", 410, 460, 10, 10, FALSE),
  HS(38, "L Sacrum (TL 1b)", 420, 460, 10, 10, FALSE),
  HS(38, "L Sacrum (TL 2a)", 430, 460, 10, 10, FALSE),
  HS(38, "L Sacrum (TL 2b)", 440, 460, 10, 10, FALSE),
  HS(38, "L Sacrum (TL 3a)", 410, 470, 10, 10, FALSE),
  HS(38, "L Sacrum (TL 3b)", 420, 470, 10, 10, FALSE),
  HS(38, "L Sacrum (TL 4a)", 410, 480, 10, 10, FALSE),
  HS(38, "L Sacrum (TL 4b)", 420, 480, 10, 10, FALSE),
  HS(39, "Lumbar Spine (L1-L3 - Right Paraspinal)", 500, 390, 25, 50, FALSE),
  HS(39, "Lumbar Spine (L4-L5 - Right Paraspinal)", 500, 440, 25, 40, FALSE),
  HS(39, "Right Lumbar Erector Spinae", 530, 390, 60, 90, FALSE),
  HS(39, "Right Gluteal (Superior)", 550, 480, 100, 50, FALSE),
  HS(39, "R Gluteal (Mid-Lateral)", 640, 510, 70, 70, FALSE),
  HS(39, "R Gluteal (Mid-Medial)", 560, 530, 80, 60, FALSE),
  HS(39, "R Ischial Tuberosity Area", 560, 580, 60, 30, FALSE),
  HS(39, "R UpperOuterLumbar S1", 570, 370, 10, 10, FALSE),
  HS(39, "R UpperOuterLumbar S2", 580, 370, 10, 10, FALSE),
  HS(39, "R UpperOuterLumbar S3", 590, 370, 10, 10, FALSE),
  HS(39, "R UpperOuterLumbar S4", 600, 370, 10, 10, FALSE),
  HS(39, "R UpperOuterLumbar S5", 570, 380, 10, 10, FALSE),
  HS(39, "R UpperOuterLumbar S6", 580, 380, 10, 10, FALSE),
  HS(39, "R UpperOuterLumbar S7", 590, 380, 10, 10, FALSE),
  HS(39, "R UpperOuterLumbar S8", 600, 380, 10, 10, FALSE),
  HS(39, "R UpperOuterLumbar S9", 570, 390, 10, 10, FALSE),
  HS(39, "R UpperOuterLumbar S10", 580, 390, 10, 10, FALSE),
  HS(39, "R UpperOuterLumbar S11", 590, 390, 10, 10, FALSE),
  HS(39, "R UpperOuterLumbar S12", 600, 390, 10, 10, FALSE),
  HS(39, "R UpperOuterLumbar S13", 570, 400, 10, 10, FALSE),
  HS(39, "R UpperOuterLumbar S14", 580, 400, 10, 10, FALSE),
  HS(39, "R UpperOuterLumbar S15", 590, 400, 10, 10, FALSE),
  HS(39, "R UpperOuterLumbar S16", 600, 400, 10, 10, FALSE),
  HS(39, "R UpperOuterLumbar S17", 565, 385, 10, 10, FALSE),
  HS(39, "R UpperOuterLumbar S18", 565, 395, 10, 10, FALSE),
  HS(39, "R UpperOuterLumbar S19", 605, 380, 10, 10, FALSE),
  HS(39, "R UpperOuterLumbar S20", 605, 390, 10, 10, FALSE),
  HS(39, "R Lumbar TopOuter A1", 590, 375, 10, 10, FALSE),
  HS(39, "R Lumbar TopOuter A2", 580, 375, 10, 10, FALSE),
  HS(39, "R Lumbar TopOuter A3", 590, 385, 10, 10, FALSE),
  HS(39, "R Lumbar TopOuter A4", 580, 385, 10, 10, FALSE),
  HS(39, "R Lumbar TopOuter B1", 600, 390, 10, 10, FALSE),
  HS(39, "R Lumbar TopOuter B2", 590, 390, 10, 10, FALSE),
  HS(39, "R Lumbar TopOuter B3", 600, 400, 10, 10, FALSE),
  HS(39, "R Lumbar TopOuter B4", 590, 400, 10, 10, FALSE),
  HS(39, "R Lumbar UpperLat C1", 585, 405, 10, 10, FALSE),
  HS(39, "R Lumbar UpperLat C2", 575, 405, 10, 10, FALSE),
  HS(39, "R Lumbar UpperLat C3", 585, 415, 10, 10, FALSE),
  HS(39, "R Lumbar UpperLat C4", 575, 415, 10, 10, FALSE),
  HS(39, "R Lumbar ES (SupLat 1)", 520, 380, 15, 15, FALSE),
  HS(39, "R Lumbar ES (SupLat 2)", 535, 380, 15, 15, FALSE),
  HS(39, "R Lumbar ES (SupLat 3)", 520, 395, 15, 15, FALSE),
  HS(39, "R Lumbar ES (SupMid 1)", 550, 380, 15, 15, FALSE),
  HS(39, "R Lumbar ES (SupMid 2)", 565, 380, 15, 15, FALSE),
  HS(39, "R Lumbar ES (SupMid 3)", 550, 395, 15, 15, FALSE),
  HS(39, "R Lumbar ES (MidLat 1)", 520, 410, 15, 15, FALSE),
  HS(39, "R Lumbar ES (MidLat 2)", 535, 410, 15, 15, FALSE),
  HS(39, "R Lumbar ES (MidLat 3)", 520, 425, 15, 15, FALSE),
  HS(39, "R Lumbar Para (Sup 1)", 500, 380, 12, 10, FALSE),
  HS(39, "R Lumbar Para (Sup 2)", 512, 380, 13, 10, FALSE),
  HS(39, "R Lumbar Para (Sup 3)", 500, 390, 12, 10, FALSE),
  HS(39, "R Lumbar Para (Mid 1)", 500, 400, 12, 10, FALSE),
  HS(39, "R Lumbar Para (Mid 2)", 512, 400, 13, 10, FALSE),
  HS(39, "R Lumbar Para (Mid 3)", 500, 410, 12, 10, FALSE),
  HS(39, "R Lumbar (TR 1a)", 570, 370, 10, 10, FALSE),
  HS(39, "R Lumbar (TR 1b)", 580, 370, 10, 10, FALSE),
  HS(39, "R Lumbar (TR 2a)", 550, 370, 10, 10, FALSE),
  HS(39, "R Lumbar (TR 2b)", 560, 370, 10, 10, FALSE),
  HS(39, "R Lumbar (TR 3a)", 570, 380, 10, 10, FALSE),
  HS(39, "R Lumbar (TR 3b)", 580, 380, 10, 10, FALSE),
  HS(39, "R Glute SupLat (A1)", 660, 470, 20, 15, FALSE),
  HS(39, "R Glute SupLat (A2)", 640, 470, 20, 15, FALSE),
  HS(39, "R Glute SupLat (B1)", 630, 475, 20, 15, FALSE),
  HS(39, "R Glute SupLat (B2)", 610, 475, 20, 15, FALSE),
  HS(39, "R Glute SupMidLat (1)", 660, 490, 25, 15, FALSE),
  HS(39, "R Glute SupMidLat (2)", 635, 490, 25, 15, FALSE),
  HS(39, "R Glute UpOut (1)", 680, 480, 20, 15, FALSE),
  HS(39, "R Glute UpOut (2)", 660, 480, 20, 15, FALSE),
  HS(39, "R Glute TR (1a)", 680, 470, 10, 10, FALSE),
  HS(39, "R Glute TR (1b)", 670, 470, 10, 10, FALSE),
  HS(39, "R Glute TR (2a)", 660, 460, 10, 10, FALSE),
  HS(39, "R Glute TR (2b)", 650, 460, 10, 10, FALSE),
  HS(39, "R Glute TR (3a)", 640, 470, 10, 10, FALSE),
  HS(39, "R Glute TR (3b)", 630, 470, 10, 10, FALSE),
  HS(39, "R Glute TR (4a)", 620, 460, 10, 10, FALSE),
  HS(39, "R Glute TR (4b)", 610, 460, 10, 10, FALSE),
  HS(39, "R Glute TR (5a)", 650, 485, 10, 10, FALSE),
  HS(39, "R Glute TR (5b)", 640, 485, 10, 10, FALSE),
  HS(39, "R Glute TR (6a)", 630, 495, 10, 10, FALSE),
  HS(39, "R Glute TR (6b)", 620, 495, 10, 10, FALSE),
  HS(39, "R Glute (Superior Medial 1)", 600, 480, 20, 15, FALSE),
  HS(39, "R Glute (Superior Medial 2)", 580, 480, 20, 15, FALSE),
  HS(39, "R Glute (Superior Medial 3)", 590, 490, 20, 15, FALSE),
  HS(39, "R UpperLateralThigh S1", 680, 500, 10, 20, FALSE),
  HS(39, "R UpperLateralThigh S2", 690, 500, 10, 20, FALSE),
  HS(39, "R UpperLateralThigh S3", 700, 500, 10, 20, FALSE),
  HS(39, "R UpperLateralThigh S4", 680, 520, 10, 20, FALSE),
  HS(39, "R UpperLateralThigh S5", 690, 520, 10, 20, FALSE),
  HS(39, "R UpperLateralThigh S6", 700, 520, 10, 20, FALSE),
  HS(39, "R UpperLateralThigh S7", 680, 540, 10, 20, FALSE),
  HS(39, "R UpperLateralThigh S8", 690, 540, 10, 20, FALSE),
  HS(39, "R UpperLateralThigh S9", 700, 540, 10, 20, FALSE),
  HS(39, "R UpperLateralThigh S10", 680, 560, 10, 20, FALSE),
  HS(39, "R UpperLateralThigh S11", 690, 560, 10, 20, FALSE),
  HS(39, "R UpperLateralThigh S12", 700, 560, 10, 20, FALSE),
  HS(39, "R UpperLateralThigh S13", 680, 580, 10, 20, FALSE),
  HS(39, "R UpperLateralThigh S14", 690, 580, 10, 20, FALSE),
  HS(39, "R UpperLateralThigh S15", 700, 580, 10, 20, FALSE),
  HS(39, "Right Posterior Superior Iliac Spine (PSIS)", 540, 470, 40, 30, FALSE),
  HS(39, "R Sacrum TopOuter A1", 580, 455, 10, 10, FALSE),
  HS(39, "R Sacrum TopOuter A2", 570, 455, 10, 10, FALSE),
  HS(39, "R Sacrum TopOuter A3", 580, 465, 10, 10, FALSE),
  HS(39, "R Sacrum TopOuter A4", 570, 465, 10, 10, FALSE),
  HS(39, "R Sacrum UpperLat B1", 565, 470, 10, 10, FALSE),
  HS(39, "R Sacrum UpperLat B2", 555, 470, 10, 10, FALSE),
  HS(39, "R Sacrum UpperLat B3", 565, 480, 10, 10, FALSE),
  HS(39, "R Sacrum UpperLat B4", 555, 480, 10, 10, FALSE),
  HS(39, "R PSIS (Sup 1)", 540, 460, 20, 10, FALSE),
  HS(39, "R PSIS (Sup 2)", 560, 460, 20, 10, FALSE),
  HS(39, "R PSIS (Lat 1)", 580, 470, 10, 15, FALSE),
  HS(39, "R PSIS (Lat 2)", 570, 470, 10, 15, FALSE),
  HS(39, "R SI Area (Sup 1)", 530, 465, 15, 12, FALSE),
  HS(39, "R SI Area (Sup 2)", 515, 465, 15, 13, FALSE),
  HS(39, "R Sacral Ala (Sup 1)", 525, 475, 12, 10, FALSE),
  HS(39, "R Sacral Ala (Sup 2)", 513, 475, 12, 10, FALSE),
  HS(39, "R Sacrum (TR 1a)", 570, 460, 10, 10, FALSE),
  HS(39, "R Sacrum (TR 1b)", 560, 460, 10, 10, FALSE),
  HS(39, "R Sacrum (TR 2a)", 550, 460, 10, 10, FALSE),
  HS(39, "R Sacrum (TR 2b)", 540, 460, 10, 10, FALSE),
  HS(39, "R Sacrum (TR 3a)", 570, 470, 10, 10, FALSE),
  HS(39, "R Sacrum (TR 3b)", 560, 470, 10, 10, FALSE),
  HS(39, "R Sacrum (TR 4a)", 570, 480, 10, 10, FALSE),
  HS(39, "R Sacrum (TR 4b)", 560, 480, 10, 10, FALSE),
  HS(39, "Sacrum (Midline)", 475, 480, 50, 40, FALSE),
  HS(39, "Sacrum (Sup Cent 1)", 475, 470, 25, 10, FALSE),
  HS(39, "Sacrum (Sup Cent 2)", 500, 470, 25, 10, FALSE),
  HS(39, "Sacrum (Mid Cent 1)", 475, 490, 25, 10, FALSE),
  HS(39, "Sacrum (Mid Cent 2)", 500, 490, 25, 10, FALSE),
  HS(40, "Left Proximal Hamstring", 330, 600, 110, 60, FALSE),
  HS(40, "L LowerLateralThigh S16", 280, 600, 10, 20, FALSE),
  HS(40, "L LowerLateralThigh S17", 290, 600, 10, 20, FALSE),
  HS(40, "L LowerLateralThigh S18", 300, 600, 10, 20, FALSE),
  HS(40, "L LowerLateralThigh S19", 280, 620, 10, 20, FALSE),
  HS(40, "L LowerLateralThigh S20", 290, 620, 10, 20, FALSE),
  HS(40, "L LowerLateralThigh S21", 300, 620, 10, 20, FALSE),
  HS(40, "L LowerLateralThigh S22", 280, 640, 10, 20, FALSE),
  HS(40, "L LowerLateralThigh S23", 290, 640, 10, 20, FALSE),
  HS(40, "L LowerLateralThigh S24", 300, 640, 10, 20, FALSE),
  HS(40, "L LowerLateralThigh S25", 280, 660, 10, 20, FALSE),
  HS(40, "L LowerLateralThigh S26", 290, 660, 10, 20, FALSE),
  HS(40, "L LowerLateralThigh S27", 300, 660, 10, 20, FALSE),
  HS(40, "L LowerLateralThigh S28", 280, 680, 10, 20, FALSE),
  HS(40, "L LowerLateralThigh S29", 290, 680, 10, 20, FALSE),
  HS(40, "L LowerLateralThigh S30", 300, 680, 10, 20, FALSE),
  HS(41, "Right Proximal Hamstring", 560, 600, 110, 60, FALSE),
  HS(41, "R LowerLateralThigh S16", 680, 600, 10, 20, FALSE),
  HS(41, "R LowerLateralThigh S17", 690, 600, 10, 20, FALSE),
  HS(41, "R LowerLateralThigh S18", 700, 600, 10, 20, FALSE),
  HS(41, "R LowerLateralThigh S19", 680, 620, 10, 20, FALSE),
  HS(41, "R LowerLateralThigh S20", 690, 620, 10, 20, FALSE),
  HS(41, "R LowerLateralThigh S21", 700, 620, 10, 20, FALSE),
  HS(41, "R LowerLateralThigh S22", 680, 640, 10, 20, FALSE),
  HS(41, "R LowerLateralThigh S23", 690, 640, 10, 20, FALSE),
  HS(41, "R LowerLateralThigh S24", 700, 640, 10, 20, FALSE),
  HS(41, "R LowerLateralThigh S25", 680, 660, 10, 20, FALSE),
  HS(41, "R LowerLateralThigh S26", 690, 660, 10, 20, FALSE),
  HS(41, "R LowerLateralThigh S27", 700, 660, 10, 20, FALSE),
  HS(41, "R LowerLateralThigh S28", 680, 680, 10, 20, FALSE),
  HS(41, "R LowerLateralThigh S29", 690, 680, 10, 20, FALSE),
  HS(41, "R LowerLateralThigh S30", 700, 680, 10, 20, FALSE),
  HS(42, "Left Mid-Hamstring", 330, 660, 110, 60, FALSE),
  HS(42, "Left Distal Hamstring (Popliteal Superior)", 340, 720, 100, 40, FALSE),
  HS(42, "Left Calf (Gastrocnemius - Medial Head)", 370, 760, 60, 70, FALSE),
  HS(42, "Left Calf (Gastrocnemius - Lateral Head)", 300, 760, 60, 70, FALSE),
  HS(42, "Left Calf (Soleus - Mid)", 330, 830, 80, 60, FALSE),
  HS(42, "Left Lateral Shin (Posterior)", 280, 800, 50, 80, FALSE),
  HS(43, "Right Mid-Hamstring", 560, 660, 110, 60, FALSE),
  HS(43, "Right Distal Hamstring (Popliteal Superior)", 560, 720, 100, 40, FALSE),
  HS(43, "Right Calf (Gastrocnemius - Medial Head)", 570, 760, 60, 70, FALSE),
  HS(43, "Right Calf (Gastrocnemius - Lateral Head)", 640, 760, 60, 70, FALSE),
  HS(43, "Right Calf (Soleus - Mid)", 590, 830, 80, 60, FALSE),
  HS(43, "Right Lateral Shin (Posterior)", 670, 800, 50, 80, FALSE),
  HS(44, "Left Achilles Tendon", 350, 890, 50, 40, FALSE),
  HS(44, "Left Heel (Posterior)", 350, 930, 60, 30, FALSE),
  HS(44, "Left Sole (Plantar Heel)", 340, 960, 70, 30, TRUE),
  HS(44, "Left Sole (Plantar Arch - Medial)", 370, 950, 40, 20, TRUE),
  HS(44, "Left Sole (Plantar Arch - Lateral)", 310, 950, 40, 20, TRUE),
  HS(44, "Left Sole (Plantar Forefoot - Medial)", 360, 940, 40, 20, TRUE),
  HS(44, "Left Sole (Plantar Forefoot - Lateral)", 300, 940, 40, 20, TRUE),
  HS(45, "Right Achilles Tendon", 600, 890, 50, 40, FALSE),
  HS(45, "Right Heel (Posterior)", 590, 930, 60, 30, FALSE),
  HS(45, "Right Sole (Plantar Heel)", 590, 960, 70, 30, TRUE),
  HS(45, "Right Sole (Plantar Arch - Medial)", 590, 950, 40, 20, TRUE),
  HS(45, "Right Sole (Plantar Arch - Lateral)", 650, 950, 40, 20, TRUE),
  HS(45, "Right Sole (Plantar Forefoot - Medial)", 600, 940, 40, 20, TRUE),
  HS(45, "Right Sole (Plantar Forefoot - Lateral)", 660, 940, 40, 20, TRUE)
  >>

\* ------------------------------------------------------------ the raster
\* Alpha channel of the body images at natural pixel (px, py): a silhouette
\* with transparent side margins, a nearly transparent top row and a bottom
\* row exactly at the threshold.  The back image is narrower than the front.
BodyAlpha(view, px, py) ==
  LET margin == IF view = "front" THEN 1 ELSE 2 IN
  IF px < margin \/ px >= NaturalWidth - margin THEN 0
  ELSE IF py = 0 THEN AlphaThreshold - 1
  ELSE IF py = NaturalHeight - 1 THEN AlphaThreshold
  ELSE 255

\* A canvas element that was never drawn on: 300 x 150 transparent black.
BlankCanvas ==
  [width |-> DefaultCanvasWidth, height |-> DefaultCanvasHeight, image |-> "blank"]

\* PixelAlpha on a canvas whose backdrop is opaque (a context without alpha).
PixelAlphaOpaqueBackdrop(cv, px, py) ==
  IF cv.image = "blank" THEN 255 ELSE BodyAlpha(cv.image, px, py)

\* ctx.getImageData(px, py, 1, 1).data[3]
PixelAlpha(cv, px, py) ==
  IF cv.image = "blank" THEN 0 ELSE BodyAlpha(cv.image, px, py)

\* Round by Math.floor: halves and everything above them go down.
RoundDown(num, den) == num \div den

\* Math.round(num / den) for den > 0: halves round towards +infinity.
Round(num, den) == (2 * num + den) \div (2 * den)

\* ----------------------------------------------------------- the resolver
\* Catalog with the tables exchanged.
CatalogSwapped(view) == IF view = "front" THEN backHotspots ELSE frontHotspots

\* The catalog of a view as the component file defines it.
Catalog(view) == IF view = "front" THEN frontHotspots ELSE backHotspots

\* hotspotsToSearch of a component that carries its own copy of the tables
\* and so never searches an empty one.
hotspotsToSearchOwnCopy(view) == Catalog(view)

\* currentView === 'front' ? frontHotspots : backHotspots, where a view in
\* catalogEmpty stands for a build whose table for that view has no entry.
hotspotsToSearch(view) == IF view \in catalogEmpty THEN <<>> ELSE Catalog(view)

\* Distance2 with the vertical offset left out.
Distance2XOnly(hotspot, clickX, clickY, imageWidth, imageHeight) ==
  LET dx == 2000 * clickX - (2 * hotspot.x + hotspot.width) * imageWidth
  IN  dx * dx

\* Squared distance from the click to the hotspot's box centre
\* (hsCenterX = x*imageWidth + (width*imageWidth)/2, the same for Y), in
\* units of 1/2000 pixel so that it stays an integer.
Distance2(hotspot, clickX, clickY, imageWidth, imageHeight) ==
  LET dx == 2000 * clickX - (2 * hotspot.x + hotspot.width) * imageWidth
      dy == 2000 * clickY - (2 * hotspot.y + hotspot.height) * imageHeight
  IN  dx * dx + dy * dy

\* ClosestIn with <= for <: of the entries at the least distance the last.
RECURSIVE ClosestInLast(_, _, _, _, _, _, _)
ClosestInLast(hs, lo, hi, clickX, clickY, imageWidth, imageHeight) ==
  IF lo = hi THEN lo
  ELSE LET mid == (lo + hi) \div 2
           a == ClosestInLast(hs, lo, mid, clickX, clickY, imageWidth, imageHeight)
           b == ClosestInLast(hs, mid + 1, hi, clickX, clickY, imageWidth, imageHeight)
       IN  IF Distance2(hs[b], clickX, clickY, imageWidth, imageHeight)
                <= Distance2(hs[a], clickX, clickY, imageWidth, imageHeight)
           THEN b ELSE a

\* The for-loop of handleImageClick over catalog entries lo..hi: the index
\* of the first entry of the least distance (the loop replaces closestHotspot
\* only on a strictly smaller distance, minDistance starting at Infinity).
\* The range is halved instead of walked so that the evaluation stays
\* shallow; keeping the earlier entry unless the later one is strictly
\* nearer is associative, so the result is the loop's.
RECURSIVE ClosestIn(_, _, _, _, _, _, _)
ClosestIn(hs, lo, hi, clickX, clickY, imageWidth, imageHeight) ==
  IF lo = hi THEN lo
  ELSE LET mid == (lo + hi) \div 2
           a == ClosestIn(hs, lo, mid, clickX, clickY, imageWidth, imageHeight)
           b == ClosestIn(hs, mid + 1, hi, clickX, clickY, imageWidth, imageHeight)
       IN  IF Distance2(hs[b], clickX, clickY, imageWidth, imageHeight)
                < Distance2(hs[a], clickX, clickY, imageWidth, imageHeight)
           THEN b ELSE a

\* Index in the catalog of closestHotspot after the loop, 0 for null (the
\* loop body never ran).
ClosestIndex(hs, clickX, clickY, imageWidth, imageHeight) ==
  IF Len(hs) = 0 THEN 0
  ELSE ClosestIn(hs, 1, Len(hs), clickX, clickY, imageWidth, imageHeight)

\* ------------------------------------------------------------ click inputs
\* Positions of a click relative to the image's top-left corner.  The store
\* specification clicks at the middle of the image (on the body), on its top
\* edge and below it; the resolver specification on the whole lattice, one
\* pixel beyond the image on every side.
OutsideXs == {0 - 1, ImageWidth + 1}
OutsideYs == {0 - 1, ImageHeight + 1}
StoreClicks ==
  { <<ImageWidth \div 2, ImageHeight \div 2>>,
    <<ImageWidth \div 2, 0>>,
    <<ImageWidth \div 2, ImageHeight + 1>> }
GridXs == (0..ImageWidth) \cup OutsideXs
GridYs == (0..ImageHeight) \cup OutsideYs
GridClicks == GridXs \X GridYs
AllClicks == StoreClicks \cup GridClicks

\* Click positions that pass the displayed-bounds check.
InsideClicks == AllClicks \cap ((0..ImageWidth) \X (0..ImageHeight))

\* closestHotspot (as a catalog index) of one view for every click position,
\* by the loop above.  @@ turns the function into an explicit table, so that
\* the loop runs once per position.
ResolveView(view) ==
  [c \in AllClicks |->
     ClosestIndex(Catalog(view), c[1], c[2], ImageWidth, ImageHeight)]
    @@ <<>>

ResolveTable == [front |-> ResolveView("front"), back |-> ResolveView("back")]

\* closestHotspot of a click at the displayed size ImageWidth x ImageHeight
\* as an index into hotspotsToSearch(view), 0 for null: the loop over no
\* entry leaves null, the loop over the view's table is looked up.
Closest(view, clickX, clickY) ==
  IF Len(hotspotsToSearch(view)) = 0
  THEN ClosestIndex(<<>>, clickX, clickY, ImageWidth, ImageHeight)
  ELSE ResolveTable[view][<<clickX, clickY>>]

\* ------------------------------------------------------------- the records
\* `point-${Date.now()}`
PointId(t) == <<"point", t>>

\* c / 0.85 as the exact fraction <<numerator, denominator>>.
Div085(c) == <<c * 20, 17>>

\* Notes that names the view the component starts with, whatever is shown.
NotesOfFirstView(view, hotspot) ==
  <<"View: ", "back", ", RegionID: ", hotspot.id>>
    \o (IF hotspot.isDetail THEN <<", Detail: ", hotspot.name>> ELSE <<>>)

\* Notes without the detail part.
NotesNoDetail(view, hotspot) ==
  <<"View: ", view, ", RegionID: ", hotspot.id>>

\* `View: ${currentView}, RegionID: ${id}` and, for a detail hotspot,
\* `, Detail: ${name}`: the pieces of the string in order.
Notes(view, hotspot) ==
  <<"View: ", view, ", RegionID: ", hotspot.id>>
    \o (IF hotspot.isDetail THEN <<", Detail: ", hotspot.name>> ELSE <<>>)

newPainArea(view, hotspot, clickX, clickY, t) ==
  [id |-> PointId(t),
   region |-> hotspot.name,
   intensity |-> DefaultIntensity,
   coordinates |-> [x |-> Div085(clickX), y |-> Div085(clickY)],
   notes |-> Notes(view, hotspot)]

\* AppendArea that replaces an earlier mark of the same region.
AppendAreaDedup(areas, area) ==
  SelectSeq(areas, LAMBDA a : a.region # area.region) \o <<area>>

\* [...formData.painAreas, newPainArea]
AppendArea(areas, area) == areas \o <<area>>

\* Removal by areas.splice(areas.findIndex(...), 1): only the first record
\* of that id goes, and the last record when there is none (index -1).
FilterOutSplice(areas, idToRemove) ==
  LET hits == {i \in 1..Len(areas) : areas[i].id = idToRemove}
      at == IF hits = {} THEN Len(areas)
            ELSE CHOOSE i \in hits : \A j \in hits : i <= j
  IN  SubSeq(areas, 1, at - 1) \o SubSeq(areas, at + 1, Len(areas))

\* formData.painAreas.filter(area => area.id !== idToRemove)
RECURSIVE FilterOut(_, _)
FilterOut(areas, idToRemove) ==
  IF areas = <<>> THEN <<>>
  ELSE IF Head(areas).id = idToRemove THEN FilterOut(Tail(areas), idToRemove)
  ELSE <<Head(areas)>> \o FilterOut(Tail(areas), idToRemove)

\* notes.includes(`View: ${view}`).  The text can only start with it: the
\* other fixed pieces hold no "View: ", the group id is digits, and no name
\* in either catalog holds "View".
NotesInclude(notes, view) == notes[1] = "View: " /\ notes[2] = view

\* areas.filter(area => area.notes?.includes(`View: ${view}`)): the marks
\* the overlay draws for a view.
filterByView(areas, view) ==
  SelectSeq(areas, LAMBDA area : NotesInclude(area.notes, view))

\* formData.painAreas.find(area => area.id === selectedPainAreaId), the
\* index of the first hit; 0 for undefined and for a null selection.
selectedPainArea ==
  IF selectedPainAreaId = null THEN 0
  ELSE LET hits == {i \in 1..Len(formData.painAreas) :
                      formData.painAreas[i].id = selectedPainAreaId}
       IN  IF hits = {} THEN 0 ELSE CHOOSE i \in hits : \A j \in hits : i <= j

\* WithIntensity with the comparison inverted (!== for ===).
WithIntensityOthers(areas, id, newIntensity) ==
  [i \in 1..Len(areas) |->
     IF areas[i].id # id THEN [areas[i] EXCEPT !.intensity = newIntensity]
     ELSE areas[i]]

\* WithIntensity that builds the changed mark from its id and the value only
\* ({ id: area.id, intensity: newIntensity }), the other fields undefined.
WithIntensityRebuilt(areas, id, newIntensity) ==
  [i \in 1..Len(areas) |->
     IF areas[i].id = id
     THEN [id |-> areas[i].id, region |-> "undefined", intensity |-> newIntensity,
           coordinates |-> areas[i].coordinates, notes |-> areas[i].notes]
     ELSE areas[i]]

\* WithIntensity without the comparison: every mark gets the value.
WithIntensityAll(areas, id, newIntensity) ==
  [i \in 1..Len(areas) |-> [areas[i] EXCEPT !.intensity = newIntensity]]

\* painAreas.map(area => area.id === selectedPainAreaId
\*                        ? { ...area, intensity: newIntensity } : area)
WithIntensity(areas, id, newIntensity) ==
  [i \in 1..Len(areas) |->
     IF areas[i].id = id THEN [areas[i] EXCEPT !.intensity = newIntensity]
     ELSE areas[i]]

\* No request handled yet.
NoRequest ==
  [route |-> "none", imageData |-> FALSE, view |-> <<>>,
   formSessionId |-> <<>>, hasFile |-> FALSE, originalname |-> <<>>,
   t |-> 0, rand |-> 0]

\* ------------------------------------------------------------------- Init
\* The component as mounted: back view, no marks, an untouched canvas, the
\* back image still loading.
InitWith(step, empties, req) ==
  /\ painAreas = <<>>
  /\ formData = [painAreas |-> <<>>]
  /\ currentStep = step
  /\ catalogEmpty = empties
  /\ capture = [pc |-> "idle", view |-> "none"]
  /\ shots = [front |-> "none", back |-> "none"]
  /\ painMapImage = [front |-> null, back |-> null]
  /\ selectedPainAreaId = null
  /\ currentView = "back"
  /\ canvas = BlankCanvas
  /\ imgPending = "back"
  /\ now = 0
  /\ issuedIds = {}
  /\ emailStateRef = "idle"
  /\ isSavingAssessment = FALSE
  /\ submitActionSaving = FALSE
  /\ attempts = <<>>
  /\ isSubmissionSuccessful = FALSE
  /\ isInitialProcessingCompleteForSubmit = FALSE
  /\ contextAiSummary = "none"
  /\ aiSummaryError = FALSE
  /\ request = req
  /\ response = 0
  /\ finalSessionDir = null
  /\ writtenPath = null
  /\ last = [op |-> "mount", arg |-> null, outcome |-> "none", chain |-> FALSE]

\* The component as mounted, no request at the server.
InitAt(step, empties) == InitWith(step, empties, NoRequest)

\* The form at the pain-mapping step, with the catalogs of the component file.
Init == InitAt(PainMappingStepNo, {})

\* -------------------------------------------------------- the container
\* Rerender that does not happen: the handlers keep the formData they have.
RerenderSkipped(areas) == formData

\* The render that follows a setFormData call before the browser delivers
\* the next event: the component and its handlers are built again over the
\* container's new state (const { formData, updateFormData } = useFormContext()).
Rerender(areas) == [painAreas |-> areas]

\* handlePainAreaUpdate(updatedPainAreas), that is updateFormData({painAreas}):
\* setFormData(prevData => ({...prevData, ...stepData})).
handlePainAreaUpdate(updatedPainAreas) ==
  /\ painAreas' = updatedPainAreas
  /\ formData' = Rerender(updatedPainAreas)

\* ---------------------------------------------------------------- actions
\* <img onLoad>: copies the decoded image onto the canvas at natural size.
ImgLoad ==
  /\ imgPending # "none"
  /\ canvas' = IF NaturalWidth > 0 /\ NaturalHeight > 0
               THEN [width |-> NaturalWidth, height |-> NaturalHeight,
                     image |-> imgPending]
               ELSE canvas
  /\ imgPending' = "none"
  /\ last' = [op |-> "load", arg |-> imgPending, outcome |-> "none", chain |-> FALSE]
  /\ UNCHANGED <<painAreas, formData, selectedPainAreaId, currentView, now,
                 issuedIds, outerVars>>

\* The view radio buttons: onChange fires for the button not yet checked.
SetView(view) ==
  /\ view # currentView
  /\ currentView' = view
  /\ selectedPainAreaId' = null
  /\ imgPending' = view
  /\ last' = [op |-> "view", arg |-> view, outcome |-> "none", chain |-> FALSE]
  /\ UNCHANGED <<painAreas, formData, canvas, now, issuedIds, outerVars>>

\* ClickOutcome without the transparency test.
ClickOutcomeNoAlphaTest(clickX, clickY, imageWidth, imageHeight) ==
  LET canvasClickX == Round(clickX * canvas.width, imageWidth)
      canvasClickY == Round(clickY * canvas.height, imageHeight)
  IN
  IF clickX < 0 \/ clickX > imageWidth \/ clickY < 0 \/ clickY > imageHeight
    THEN [kind |-> "outside", alpha |-> null, at |-> null]
  ELSE IF canvas.width = 0 \/ canvas.height = 0
    THEN [kind |-> "notReady", alpha |-> null, at |-> null]
  ELSE IF canvasClickX < 0 \/ canvasClickX >= canvas.width
          \/ canvasClickY < 0 \/ canvasClickY >= canvas.height
    THEN [kind |-> "outsideNatural", alpha |-> null, at |-> null]
  ELSE [kind |-> "accepted",
        alpha |-> <<PixelAlpha(canvas, canvasClickX, canvasClickY)>>,
        at |-> <<canvasClickX, canvasClickY>>]

\* ClickOutcome that moves a click beyond the canvas onto its nearest edge
\* pixel instead of rejecting it.
ClickOutcomeClamped(clickX, clickY, imageWidth, imageHeight) ==
  LET Clamp(v, hi) == IF v < 0 THEN 0 ELSE IF v > hi THEN hi ELSE v
      canvasClickX == Clamp(Round(clickX * canvas.width, imageWidth), canvas.width - 1)
      canvasClickY == Clamp(Round(clickY * canvas.height, imageHeight), canvas.height - 1)
      alpha == PixelAlpha(canvas, canvasClickX, canvasClickY)
  IN
  IF canvas.width = 0 \/ canvas.height = 0
    THEN [kind |-> "notReady", alpha |-> null, at |-> null]
  ELSE IF alpha < AlphaThreshold
    THEN [kind |-> "transparent", alpha |-> <<alpha>>,
        at |-> <<canvasClickX, canvasClickY>>]
  ELSE [kind |-> "accepted", alpha |-> <<alpha>>,
        at |-> <<canvasClickX, canvasClickY>>]

\* Outcome of handleImageClick's checks, in their order in the code.
ClickOutcome(clickX, clickY, imageWidth, imageHeight) ==
  LET canvasClickX == Round(clickX * canvas.width, imageWidth)
      canvasClickY == Round(clickY * canvas.height, imageHeight)
  IN
  IF clickX < 0 \/ clickX > imageWidth \/ clickY < 0 \/ clickY > imageHeight
    THEN [kind |-> "outside", alpha |-> null, at |-> null]
  ELSE IF canvas.width = 0 \/ canvas.height = 0
    THEN [kind |-> "notReady", alpha |-> null, at |-> null]
  ELSE IF canvasClickX < 0 \/ canvasClickX >= canvas.width
          \/ canvasClickY < 0 \/ canvasClickY >= canvas.height
    THEN [kind |-> "outsideNatural", alpha |-> null, at |-> null]
  ELSE LET alpha == PixelAlpha(canvas, canvasClickX, canvasClickY) IN
       IF alpha < AlphaThreshold
         THEN [kind |-> "transparent", alpha |-> <<alpha>>,
        at |-> <<canvasClickX, canvasClickY>>]
       ELSE IF Len(hotspotsToSearch(currentView)) = 0
         THEN [kind |-> "emptyCatalog", alpha |-> <<alpha>>,
        at |-> <<canvasClickX, canvasClickY>>]
       ELSE IF Closest(currentView, clickX, clickY) = 0
         THEN [kind |-> "noMatch", alpha |-> <<alpha>>,
        at |-> <<canvasClickX, canvasClickY>>]
       ELSE [kind |-> "accepted", alpha |-> <<alpha>>,
        at |-> <<canvasClickX, canvasClickY>>]

\* The click would add a mark.
Accepts(clickX, clickY) ==
  ClickOutcome(clickX, clickY, ImageWidth, ImageHeight).kind = "accepted"

\* handleImageClick; t is what Date.now() returns if the handler gets as far
\* as building the record (the clock is read nowhere else).
handleImageClick(clickX, clickY, t) ==
  LET out == ClickOutcome(clickX, clickY, ImageWidth, ImageHeight) IN
  /\ t >= now
  /\ now' = IF out.kind = "accepted" THEN t ELSE now
  /\ last' = [op |-> "click", arg |-> <<clickX, clickY>>, outcome |-> out,
              chain |-> (last.op = "click" /\ last.outcome.kind = "accepted")]
  /\ IF out.kind = "accepted"
     THEN LET closestHotspot ==
                hotspotsToSearch(currentView)[Closest(currentView, clickX, clickY)]
              area == newPainArea(currentView, closestHotspot, clickX, clickY, t)
          IN  /\ handlePainAreaUpdate(AppendArea(formData.painAreas, area))
              /\ selectedPainAreaId' = area.id
              /\ issuedIds' = issuedIds \cup {area.id}
     ELSE UNCHANGED <<painAreas, formData, selectedPainAreaId, issuedIds>>
  /\ UNCHANGED <<currentView, canvas, imgPending, outerVars>>

\* The overlay marker of a mark of the view shown: onClick selects it.
SelectMarker(i) ==
  LET shown == filterByView(formData.painAreas, currentView) IN
  /\ i \in 1..Len(shown)
  /\ selectedPainAreaId' = shown[i].id
  /\ last' = [op |-> "select", arg |-> shown[i].id, outcome |-> "none",
              chain |-> FALSE]
  /\ UNCHANGED <<painAreas, formData, currentView, canvas, imgPending, now,
                 issuedIds, outerVars>>

\* The slider panel's Done button.
Done ==
  /\ selectedPainArea # 0
  /\ selectedPainAreaId' = null
  /\ last' = [op |-> "done", arg |-> null, outcome |-> "none", chain |-> FALSE]
  /\ UNCHANGED <<painAreas, formData, currentView, canvas, imgPending, now,
                 issuedIds, outerVars>>

\* handleIntensityChange(newIntensity)
handleIntensityChange(newIntensity) ==
  /\ IF selectedPainArea # 0
     THEN handlePainAreaUpdate(
            WithIntensity(formData.painAreas, selectedPainAreaId, newIntensity))
     ELSE UNCHANGED <<painAreas, formData>>
  /\ last' = [op |-> "intensity", arg |-> newIntensity,
              outcome |-> IF selectedPainArea # 0 THEN "stored" ELSE "ignored",
              chain |-> (last.op = "click" /\ last.outcome.kind = "accepted")]
  /\ UNCHANGED <<selectedPainAreaId, currentView, canvas, imgPending, now,
                 issuedIds, outerVars>>

\* removePainArea without the test on the selection.
removePainAreaKeepSelection(idToRemove) ==
  /\ handlePainAreaUpdate(FilterOut(formData.painAreas, idToRemove))
  /\ last' = [op |-> "remove", arg |-> idToRemove, outcome |-> "none",
              chain |-> (last.op = "remove" /\ last.arg = idToRemove)]
  /\ UNCHANGED <<selectedPainAreaId, currentView, canvas, imgPending, now,
                 issuedIds, outerVars>>

\* removePainArea(idToRemove)
removePainArea(idToRemove) ==
  /\ handlePainAreaUpdate(FilterOut(formData.painAreas, idToRemove))
  /\ selectedPainAreaId' = IF selectedPainAreaId = idToRemove THEN null
                           ELSE selectedPainAreaId
  /\ last' = [op |-> "remove", arg |-> idToRemove, outcome |-> "none",
              chain |-> (last.op = "remove" /\ last.arg = idToRemove)]
  /\ UNCHANGED <<currentView, canvas, imgPending, now, issuedIds, outerVars>>

\* ------------------------------------------------------ captureBothViews
\* setCurrentView(view) from captureBothViews: a new view gives the <img> a
\* new src, whose load event is then outstanding; the selection stays.
ShowForCapture(view) ==
  /\ currentView' = view
  /\ imgPending' = IF view # currentView THEN view ELSE imgPending

\* captureBothViews up to its first await: the front view is set and the
\* 100 ms timer started.
captureBothViews ==
  /\ capture.pc = "idle"
  /\ ShowForCapture("front")
  /\ capture' = [pc |-> "wait", view |-> "front"]
  /\ last' = [op |-> "capture", arg |-> "front", outcome |-> "none",
              chain |-> FALSE]
  /\ UNCHANGED <<painAreas, formData, currentStep, catalogEmpty, summaryVars, serverVars, shots,
                 painMapImage, selectedPainAreaId, canvas, now, issuedIds>>

\* What follows handleCapturePainMap(view) in captureBothViews: after the
\* front view the back view is set and the timer started, after the back
\* view the run is over.
CaptureProceeds ==
  IF capture.view = "front"
  THEN /\ ShowForCapture("back")
       /\ capture' = [pc |-> "wait", view |-> "back"]
  ELSE /\ capture' = [pc |-> "idle", view |-> "none"]
       /\ UNCHANGED <<currentView, imgPending>>

\* The timer fires and handleCapturePainMap(view) runs html2canvas on the
\* container: the picture shows the view displayed at that moment and is
\* posted with the label `view`; when html2canvas throws, the catch block
\* ends handleCapturePainMap.
CaptureShot(ok) ==
  /\ capture.pc = "wait"
  /\ last' = [op |-> "shot", arg |-> capture.view,
              outcome |-> IF ok THEN "taken" ELSE "failed", chain |-> FALSE]
  /\ IF ok
     THEN /\ shots' = [shots EXCEPT ![capture.view] = currentView]
          /\ capture' = [pc |-> "upload", view |-> capture.view]
          /\ UNCHANGED <<currentView, imgPending>>
     ELSE /\ CaptureProceeds
          /\ UNCHANGED shots
  /\ UNCHANGED <<painAreas, formData, currentStep, catalogEmpty, summaryVars, serverVars, painMapImage,
                 selectedPainAreaId, canvas, now, issuedIds>>

\* The response to POST /api/upload/pain-map: an ok response stores the file
\* path under the label's field, anything else is caught and logged.
CaptureUploaded(ok) ==
  /\ capture.pc = "upload"
  /\ painMapImage' = IF ok
                     THEN [painMapImage EXCEPT ![capture.view] =
                             <<"pain-map", capture.view>>]
                     ELSE painMapImage
  /\ last' = [op |-> "upload", arg |-> capture.view,
              outcome |-> IF ok THEN "stored" ELSE "failed", chain |-> FALSE]
  /\ CaptureProceeds
  /\ UNCHANGED <<painAreas, formData, currentStep, catalogEmpty, summaryVars, serverVars, shots,
                 selectedPainAreaId, canvas, now, issuedIds>>

\* The container's step navigation.  Which step components are mounted at
\* a step is the stepper's business; the component's own state is left as
\* it is.
Navigated(call, asked, step) ==
  /\ currentStep' = step
  /\ last' = [op |-> "step", arg |-> asked, outcome |-> call, chain |-> FALSE]
  /\ UNCHANGED <<painAreas, formData, catalogEmpty, summaryVars, serverVars, capture, shots,
                 painMapImage, selectedPainAreaId, currentView, canvas,
                 imgPending, now, issuedIds>>

\* goToNextStep that starts a fresh form on passing the last step.
goToNextStepWrapping ==
  /\ currentStep' = IF currentStep < totalSteps THEN currentStep + 1 ELSE 1
  /\ painAreas' = IF currentStep < totalSteps THEN painAreas ELSE <<>>
  /\ formData' = Rerender(painAreas')
  /\ last' = [op |-> "step", arg |-> currentStep + 1, outcome |-> "next",
              chain |-> FALSE]
  /\ UNCHANGED <<catalogEmpty, summaryVars, serverVars, capture, shots, painMapImage,
                 selectedPainAreaId, currentView, canvas, imgPending, now,
                 issuedIds>>

goToNextStep ==
  Navigated("next", currentStep + 1,
            IF currentStep < totalSteps THEN currentStep + 1 ELSE currentStep)

goToPrevStep ==
  Navigated("prev", currentStep - 1,
            IF currentStep > 1 THEN currentStep - 1 ELSE currentStep)

\* goToStep without the test of its argument.
goToStepUnchecked(step) == Navigated("goto", step, step)

goToStep(step) ==
  Navigated("goto", step,
            IF step >= 1 /\ step <= totalSteps THEN step ELSE currentStep)

\* ------------------------------------------------------ the summary step
\* The AI summary request made when the summary step mounts comes back:
\* the summary is stored or the error is, and the initial processing is
\* marked complete either way.
generateAiSummary(ok) ==
  /\ ~isInitialProcessingCompleteForSubmit
  /\ isInitialProcessingCompleteForSubmit' = TRUE
  /\ contextAiSummary' = IF ok THEN "summary" ELSE "none"
  /\ aiSummaryError' = ~ok
  /\ last' = [op |-> "summary", arg |-> null,
              outcome |-> IF ok THEN "stored" ELSE "failed", chain |-> FALSE]
  /\ UNCHANGED <<emailStateRef, isSavingAssessment, submitActionSaving,
                 attempts, isSubmissionSuccessful, painMapVars,
                 serverVars>>

\* The effect that hands the handler of the latest render to the container:
\* from now on a submit runs the handler that closes over the present
\* isSavingAssessment.
registerSubmitAction ==
  /\ submitActionSaving # isSavingAssessment
  /\ submitActionSaving' = isSavingAssessment
  /\ last' = [op |-> "register", arg |-> null, outcome |-> "none",
              chain |-> FALSE]
  /\ UNCHANGED <<emailStateRef, isSavingAssessment, attempts,
                 isSubmissionSuccessful, isInitialProcessingCompleteForSubmit,
                 contextAiSummary, aiSummaryError, painMapVars,
                 serverVars>>

\* The first test of handleFinalSubmit, without the look at emailStateRef.
InProgressBySaving(state, saving) == saving

\* emailStateRef.current === 'sending' || isSavingAssessment
InProgress(state, saving) == state = "sending" \/ saving

\* The pre-submission checks.
PreChecksPass ==
  /\ isInitialProcessingCompleteForSubmit
  /\ contextAiSummary # "none"
  /\ ~aiSummaryError

\* handleFinalSubmit up to its first await: the calls that return early,
\* and the call that marks the submission as sending and issues the save
\* request.
handleFinalSubmit ==
  /\ IF InProgress(emailStateRef, submitActionSaving)
     THEN /\ last' = [op |-> "submit", arg |-> null, outcome |-> "busy",
                      chain |-> FALSE]
          /\ UNCHANGED <<emailStateRef, isSavingAssessment, attempts>>
     ELSE IF emailStateRef = "sent"
     THEN /\ last' = [op |-> "submit", arg |-> null, outcome |-> "already",
                      chain |-> FALSE]
          /\ UNCHANGED <<emailStateRef, isSavingAssessment, attempts>>
     ELSE IF ~PreChecksPass
     THEN /\ emailStateRef' = "error"
          /\ last' = [op |-> "submit", arg |-> null, outcome |-> "blocked",
                      chain |-> FALSE]
          /\ UNCHANGED <<isSavingAssessment, attempts>>
     ELSE /\ Len(attempts) < MaxAttempts
          /\ emailStateRef' = "sending"
          /\ isSavingAssessment' = TRUE
          /\ attempts' = Append(attempts, [pc |-> "save", save |-> "pending",
                                           email |-> "none"])
          /\ last' = [op |-> "submit", arg |-> null, outcome |-> "started",
                      chain |-> FALSE]
  /\ UNCHANGED <<submitActionSaving, isSubmissionSuccessful,
                 isInitialProcessingCompleteForSubmit, contextAiSummary,
                 aiSummaryError, painMapVars,
                 serverVars>>

\* What a request can come to: a response with an ok status, a response
\* with another status, or a fetch or body that rejects.
Outcomes == {"ok", "status", "rejected"}

\* Whether the handler leaves its try block, taking only a rejection as
\* a reason.
ThrownOnRejectionOnly(outcome) == outcome = "rejected"

\* Whether the handler leaves its try block: an await that rejects, or
\* the throw on a response that is not ok.
Thrown(outcome) == outcome # "ok"

\* The catch block of handleFinalSubmit for attempt k.
Caught(k, which, outcome) ==
  /\ emailStateRef' = "error"
  /\ isSavingAssessment' = FALSE
  /\ attempts' = [attempts EXCEPT ![k] =
                    [pc |-> "error",
                     save |-> IF which = "save" THEN outcome ELSE @.save,
                     email |-> IF which = "email" THEN outcome ELSE @.email]]
  /\ UNCHANGED isSubmissionSuccessful

\* handleFinalSubmit from the answer to the save request of attempt k to
\* its next await: the email request is issued.
SaveResponse(k, outcome) ==
  /\ attempts[k].pc = "save"
  /\ IF Thrown(outcome)
     THEN Caught(k, "save", outcome)
     ELSE /\ isSavingAssessment' = FALSE
          /\ attempts' = [attempts EXCEPT ![k] =
                            [pc |-> "email", save |-> outcome,
                             email |-> "pending"]]
          /\ UNCHANGED <<emailStateRef, isSubmissionSuccessful>>
  /\ last' = [op |-> "saveResponse", arg |-> k, outcome |-> outcome,
              chain |-> FALSE]
  /\ UNCHANGED <<submitActionSaving, isInitialProcessingCompleteForSubmit,
                 contextAiSummary, aiSummaryError, painMapVars,
                 serverVars>>

\* handleFinalSubmit from the answer to the email request of attempt k to
\* its end.
EmailResponse(k, outcome) ==
  /\ attempts[k].pc = "email"
  /\ IF Thrown(outcome)
     THEN Caught(k, "email", outcome)
     ELSE /\ emailStateRef' = "sent"
          /\ isSubmissionSuccessful' = TRUE
          /\ attempts' = [attempts EXCEPT ![k] =
                            [pc |-> "sent", save |-> @.save,
                             email |-> outcome]]
          /\ UNCHANGED isSavingAssessment
  /\ last' = [op |-> "emailResponse", arg |-> k, outcome |-> outcome,
              chain |-> FALSE]
  /\ UNCHANGED <<submitActionSaving, isInitialProcessingCompleteForSubmit,
                 contextAiSummary, aiSummaryError, painMapVars,
                 serverVars>>

\* ------------------------------------------------------ the upload routes
\* Strings are sequences of characters; a literal that holds neither '/'
\* nor a lone '.' stands as one element.  A path is the sequence of its
\* segments, from the root.
Strings(chars, maxLen) == UNION {[1..n -> chars] : n \in 0..maxLen}

\* path.join(__dirname, '../public/uploads') and the directories under it.
baseUploadsDir == << <<"server">>, <<"public">>, <<"uploads">> >>
baseAssessmentFilesDir == Append(baseUploadsDir, <<"assessment_files">>)
tempUploadDir == Append(baseUploadsDir, <<"temp">>)

\* str.replace(/[^a-zA-Z0-9_-]/g, ''): the characters outside the class
\* are dropped.
RECURSIVE SanitizeSessionId(_)
SanitizeSessionId(str) ==
  IF str = <<>> THEN <<>>
  ELSE (IF Head(str) \in {".", "/", " "} THEN <<>> ELSE <<Head(str)>>)
         \o SanitizeSessionId(Tail(str))

\* str.replace(/[^a-zA-Z0-9_.-]/g, '_'): the characters outside the class
\* become '_'.
SanitizeOriginalName(str) ==
  [i \in 1..Len(str) |-> IF str[i] \in {"/", " "} THEN "_" ELSE str[i]]

\* The segments of a string: its pieces between '/' characters.
RECURSIVE SplitSegments(_, _)
SplitSegments(str, segment) ==
  IF str = <<>> THEN <<segment>>
  ELSE IF Head(str) = "/" THEN <<segment>> \o SplitSegments(Tail(str), <<>>)
  ELSE SplitSegments(Tail(str), Append(segment, Head(str)))

\* path.normalize of an absolute path: empty and '.' segments go, a '..'
\* segment takes the segment before it away, and nothing goes above the
\* root.
RECURSIVE NormalizeOnto(_, _)
NormalizeOnto(path, segments) ==
  IF segments = <<>> THEN path
  ELSE LET segment == Head(segments) IN
       NormalizeOnto(
         IF segment = <<>> \/ segment = <<".">> THEN path
         ELSE IF segment = <<".", ".">>
              THEN (IF path = <<>> THEN path
                    ELSE SubSeq(path, 1, Len(path) - 1))
              ELSE Append(path, segment),
         Tail(segments))

\* path.join(dir, name) for a normalized absolute dir.
PathJoin(dir, name) == NormalizeOnto(dir, SplitSegments(name, <<>>))

\* Whether a path lies inside a directory.
Inside(path, dir) ==
  /\ Len(path) > Len(dir)
  /\ SubSeq(path, 1, Len(dir)) = dir

\* The directories there are once finalSessionDir was made.
DirectoryExists(path, sessionDir) ==
  \/ path = sessionDir
  \/ path = tempUploadDir
  \/ /\ Len(path) <= Len(baseAssessmentFilesDir)
     /\ path = SubSeq(baseAssessmentFilesDir, 1, Len(path))

\* What a handler leaves behind: the status of its response, the session
\* directory it worked out and the path of the file it wrote.
Responded(status, dir, path) ==
  /\ response' = status
  /\ finalSessionDir' = dir
  /\ writtenPath' = path
  /\ UNCHANGED <<request, painMapVars, summaryVars, last>>

\* The pain-map handler: 400 on a missing field, else the decoded image is
\* written under the session directory, 500 when the write throws.
painMapUpload ==
  /\ response = 0
  /\ IF ~request.imageData \/ request.view = <<>>
        \/ request.formSessionId = <<>>
     THEN Responded(400, null, null)
     ELSE LET sanitizedSessionId == SanitizeSessionId(request.formSessionId)
              dir == PathJoin(baseAssessmentFilesDir, sanitizedSessionId)
              filename == <<"pain-map-">> \o request.view
                            \o <<"-", ToString(request.t), ".png">>
              finalPath == PathJoin(dir, filename)
          IN  IF DirectoryExists(SubSeq(finalPath, 1, Len(finalPath) - 1),
                                 dir)
                 /\ ~DirectoryExists(finalPath, dir)
              THEN Responded(200, dir, finalPath)
              ELSE Responded(500, dir, null)

\* router.post('/pain-map') of the upload router.
RouterPostPainMap == request.route = "/pain-map" /\ painMapUpload

\* app.post('/api/upload/pain-map') of the server file, the same handler.
AppPostPainMap == request.route = "/api/upload/pain-map" /\ painMapUpload

\* router.post('/imaging-file'): multer stores the upload in the temp
\* directory under a name made of the time, a random number and the
\* sanitized original name; the handler moves it into the session
\* directory.
PostImagingFile ==
  /\ request.route = "/imaging-file"
  /\ response = 0
  /\ IF ~request.hasFile
     THEN Responded(400, null, null)
     ELSE LET formSessionId == IF request.formSessionId = <<>>
                               THEN <<"default_session">>
                               ELSE request.formSessionId
              sanitizedSessionId == SanitizeSessionId(formSessionId)
              dir == PathJoin(baseAssessmentFilesDir, sanitizedSessionId)
              filename == <<ToString(request.t), "-", ToString(request.rand),
                            "-">>
                            \o SanitizeOriginalName(request.originalname)
              finalPath == PathJoin(dir, filename)
          IN  IF DirectoryExists(SubSeq(finalPath, 1, Len(finalPath) - 1),
                                 dir)
                 /\ ~DirectoryExists(finalPath, dir)
              THEN Responded(200, dir, finalPath)
              ELSE Responded(500, dir, null)

\* ---------------------------------------------------------- specifications
\* Values handed to handleIntensityChange: the two ends of the slider and one
\* below it.
IntensityInputs == {SliderMin - Overshoot, SliderMin, SliderMax}
Ids == {PointId(t) : t \in 0..MaxClock}

Next ==
  \/ ImgLoad
  \/ \E view \in Views : SetView(view)
  \/ \E c \in StoreClicks, t \in 0..MaxClock :
       /\ Accepts(c[1], c[2]) => Len(painAreas) < MaxAreas
       /\ handleImageClick(c[1], c[2], t)
  \/ \E i \in 1..MaxAreas : SelectMarker(i)
  \/ Done
  \/ \E v \in IntensityInputs : handleIntensityChange(v)
  \/ \E id \in Ids : removePainArea(id)

Spec == Init /\ [][Next]_vars

\* The resolver on the whole click lattice: a click inside the image meets an
\* empty store and the mark it adds is removed again; a click outside the
\* image meets either store.
ResolverNext ==
  \/ ImgLoad
  \/ \E view \in Views : SetView(view)
  \/ \E c \in GridClicks :
       /\ painAreas = <<>> \/ c \notin InsideClicks
       /\ handleImageClick(c[1], c[2], now)
  \/ painAreas # <<>> /\ removePainArea(painAreas[1].id)

ResolverSpec == Init /\ [][ResolverNext]_vars

\* The resolver for every choice of views whose catalog is empty, at least
\* one.
CatalogInit ==
  \E empties \in (SUBSET Views) \ {{}} : InitAt(PainMappingStepNo, empties)

CatalogSpec == CatalogInit /\ [][ResolverNext]_vars

\* A captureBothViews run while the user goes on using the component.
CaptureNext ==
  \/ captureBothViews
  \/ \E ok \in BOOLEAN : CaptureShot(ok)
  \/ \E ok \in BOOLEAN : CaptureUploaded(ok)
  \/ ImgLoad
  \/ \E view \in Views : SetView(view)
  \/ /\ Len(painAreas) < MaxAreas
     /\ \E t \in 0..MaxClock :
          handleImageClick(ImageWidth \div 2, ImageHeight \div 2, t)
  \/ \E i \in 1..MaxAreas : SelectMarker(i)

CaptureSpec == Init /\ [][CaptureNext]_vars

\* The form from its first step: navigation, and at the pain-mapping step
\* the image load, clicks on the body, the slider's end and removal.
StepInputs == (0 - 1)..(totalSteps + 1)

FormInit == InitAt(1, {})

FormNext ==
  \/ goToNextStep
  \/ goToPrevStep
  \/ \E step \in StepInputs : goToStep(step)
  \/ currentStep = PainMappingStepNo /\ ImgLoad
  \/ /\ currentStep = PainMappingStepNo
     /\ Len(painAreas) < MaxAreas
     /\ \E t \in 0..MaxClock :
          handleImageClick(ImageWidth \div 2, ImageHeight \div 2, t)
  \/ /\ currentStep = PainMappingStepNo
     /\ \E v \in {SliderMin, SliderMax} : handleIntensityChange(v)
  \/ currentStep = PainMappingStepNo /\ \E id \in Ids : removePainArea(id)

FormSpec == FormInit /\ [][FormNext]_vars

\* The summary step: the AI summary arriving, submit calls at any moment,
\* the answers to the two requests, and the registration of the handler.
SubmitInit == InitAt(totalSteps, {})

SubmitNext ==
  \/ \E ok \in BOOLEAN : generateAiSummary(ok)
  \/ registerSubmitAction
  \/ handleFinalSubmit
  \/ \E k \in 1..Len(attempts) : \E outcome \in Outcomes :
       SaveResponse(k, outcome)
  \/ \E k \in 1..Len(attempts) : \E outcome \in Outcomes :
       EmailResponse(k, outcome)

SubmitSpec == SubmitInit /\ [][SubmitNext]_vars

\* The upload routes, each handling one request: any view of up to
\* MaxViewLen characters, any session id of up to MaxIdLen, any file name
\* of up to MaxNameLen.
ViewChars == {"a", ".", "/"}
IdChars == {"s", "."}
NameChars == {"a", ".", "/", " "}

PainMapRequests ==
  [route : {"/pain-map", "/api/upload/pain-map"}, imageData : BOOLEAN,
   view : Strings(ViewChars, MaxViewLen),
   formSessionId : Strings(IdChars, MaxIdLen), hasFile : {FALSE},
   originalname : {<<>>}, t : {0}, rand : {0}]

ImagingRequests ==
  [route : {"/imaging-file"}, imageData : {FALSE}, view : {<<>>},
   formSessionId : Strings(IdChars, MaxIdLen), hasFile : BOOLEAN,
   originalname : Strings(NameChars, MaxNameLen), t : 0..MaxClock,
   rand : 0..1]

UploadInit ==
  \E req \in PainMapRequests \cup ImagingRequests :
    InitWith(PainMappingStepNo, {}, req)

UploadNext ==
  \/ RouterPostPainMap
  \/ AppPostPainMap
  \/ PostImagingFile

UploadSpec == UploadInit /\ [][UploadNext]_vars

\* ------------------------------------------------------------------ claims
\* The click of the latest handler run, when it was a click.
LastClickX == last.arg[1]
LastClickY == last.arg[2]

\* The centre of a hotspot's box on the displayed image, doubled and in
\* thousandths of a pixel, and the squared distance of a point to it.
CentreX(h) == (2 * h.x + h.width) * ImageWidth
CentreY(h) == (2 * h.y + h.height) * ImageHeight
EuclidSq(h, px, py) ==
  (2000 * px - CentreX(h)) * (2000 * px - CentreX(h))
    + (2000 * py - CentreY(h)) * (2000 * py - CentreY(h))

\* C1: a click strictly inside the image whose sampled pixel is opaque adds
\* one record, and its region is the name of a hotspot of the active view
\* whose box centre is at the least distance from the click.
C1_NearestCentre ==
  [][ ( /\ last'.op = "click"
        /\ LastClickX' > 0 /\ LastClickX' < ImageWidth
        /\ LastClickY' > 0 /\ LastClickY' < ImageHeight
        /\ last'.outcome.alpha # null
        /\ last'.outcome.alpha[1] >= AlphaThreshold )
      => LET hs == hotspotsToSearch(currentView)
             n == Len(painAreas')
         IN  /\ n = Len(painAreas) + 1
             /\ \E i \in 1..Len(hs) :
                  /\ hs[i].name = painAreas'[n].region
                  /\ LET d == EuclidSq(hs[i], LastClickX', LastClickY')
                     IN  \A j \in 1..Len(hs) :
                           d <= EuclidSq(hs[j], LastClickX', LastClickY') ]_vars

C1_Witness ==
  /\ last.op = "click"
  /\ last.outcome.kind = "accepted"
  /\ LastClickX = 1 /\ LastClickY = ImageHeight - 1
  /\ currentView = "front"
  /\ Len(painAreas) = 1

\* C2: a click whose sampled pixel has alpha below the threshold adds no
\* record: the store and the selection are unchanged.
C2_TransparentRejected ==
  [][ ( /\ last'.op = "click"
        /\ last'.outcome.alpha # null
        /\ last'.outcome.alpha[1] < AlphaThreshold )
      => /\ painAreas' = painAreas
         /\ selectedPainAreaId' = selectedPainAreaId ]_vars

C2_Witness ==
  /\ last.op = "click"
  /\ last.outcome.alpha = <<AlphaThreshold - 1>>
  /\ canvas.image = currentView
  /\ Len(painAreas) = MaxAreas

\* C3: a click outside the displayed image's rectangle gives no match: the
\* store and the selection are unchanged.
C3_OutsideRejected ==
  [][ ( /\ last'.op = "click"
        /\ \/ LastClickX' < 0 \/ LastClickX' > ImageWidth
           \/ LastClickY' < 0 \/ LastClickY' > ImageHeight )
      => /\ painAreas' = painAreas
         /\ selectedPainAreaId' = selectedPainAreaId
         /\ last'.outcome.kind # "accepted" ]_vars

C3_Witness ==
  /\ last.op = "click"
  /\ LastClickX = ImageWidth + 1
  /\ LastClickY = ImageHeight \div 2
  /\ canvas.image = currentView
  /\ painAreas # <<>>

\* C4: while nothing has been drawn on the canvas the store is empty and
\* nothing is selected, whatever was clicked; and a click is accepted only
\* with an alpha sample read from a canvas an image was drawn on.
C4_NoMatchBeforeLoad ==
  /\ canvas.image = "blank" => painAreas = <<>> /\ selectedPainAreaId = null
  /\ (last.op = "click" /\ last.outcome.kind = "accepted")
       => last.outcome.alpha # null /\ canvas.image # "blank"

C4_Witness ==
  /\ canvas.image = "blank"
  /\ currentView = "front"
  /\ last.op = "click"
  /\ last.arg = <<ImageWidth \div 2, ImageHeight \div 2>>
  /\ last.outcome.kind = "transparent"

\* C5: the id given to a new record was never given to a record before, so
\* no two records share an id and the id of a removed record is not reused.
C5_IdsNeverReused ==
  [][ (last'.op = "click" /\ last'.outcome.kind = "accepted")
      => painAreas'[Len(painAreas')].id \notin issuedIds ]_vars

\* C6: an intensity change of the selected record outside 0..10 fails with
\* the out-of-range error and leaves the store unchanged; one inside 0..10
\* is stored.
C6_OutOfRangeRejected ==
  [][ (last'.op = "intensity" /\ selectedPainArea # 0)
      => IF last'.arg \in SliderMin..SliderMax
         THEN painAreas'[selectedPainArea].intensity = last'.arg
         ELSE painAreas' = painAreas /\ last'.outcome = "outOfRange" ]_vars

\* C7: every record's intensity is an integer in 0..10.
C7_IntensityInRange ==
  \A i \in 1..Len(painAreas) : painAreas[i].intensity \in SliderMin..SliderMax

\* C8: an intensity change to v in 0..10 right after an accepted click leaves
\* the record the click added with intensity v and with the id and the
\* region it was created with.
C8_RoundTrip ==
  [][ ( /\ last.op = "click"
        /\ last.outcome.kind = "accepted"
        /\ last'.op = "intensity"
        /\ last'.arg \in SliderMin..SliderMax )
      => LET n == Len(painAreas)
         IN  /\ Len(painAreas') = n
             /\ painAreas'[n].intensity = last'.arg
             /\ painAreas'[n].id = painAreas[n].id
             /\ painAreas'[n].region = painAreas[n].region ]_vars

C8_Witness ==
  /\ last.op = "intensity"
  /\ last.chain
  /\ last.arg = SliderMax
  /\ Len(painAreas) = MaxAreas
  /\ painAreas[MaxAreas].intensity = SliderMax

\* C9: removePainArea(id) right after removePainArea(id), and removePainArea
\* of an id no record has, leave the store and the selection as they are.
C9_RemoveIdempotent ==
  [][ ( /\ last'.op = "remove"
        /\ \/ last.op = "remove" /\ last.arg = last'.arg
           \/ \A i \in 1..Len(painAreas) : painAreas[i].id # last'.arg )
      => /\ painAreas' = painAreas
         /\ selectedPainAreaId' = selectedPainAreaId ]_vars

C9_Witness ==
  /\ last.op = "remove"
  /\ last.chain
  /\ painAreas # <<>>

\* C10: of two records with the same region, an intensity change of one
\* leaves the other as it is, and removing one leaves the other in the store
\* with all its fields.
C10_SameRegionIndependent ==
  [][ \A i, j \in 1..Len(painAreas) :
        (i # j /\ painAreas[i].region = painAreas[j].region)
        => /\ (last'.op = "intensity" /\ selectedPainArea = i)
                => painAreas'[j] = painAreas[j]
           /\ (last'.op = "remove" /\ last'.arg = painAreas[i].id)
                => \E k \in 1..Len(painAreas') : painAreas'[k] = painAreas[j] ]_vars

\* The latest handler run was a click that added a mark.
ClickAccepted == last.op = "click" /\ last.outcome.kind = "accepted"

\* The mark an accepted click has just added.
NewArea == painAreas[Len(painAreas)]

\* C11: the marks the filter returns for a view are exactly the marks added
\* while that view was active: an accepted click adds its mark to the result
\* for the active view and to no other, no other step moves a mark into or
\* out of a view's result, and every mark is in the result of one view.
C11_ViewIsolation ==
  /\ [](\A k \in 1..Len(painAreas) :
          Cardinality({view \in Views :
                         NotesInclude(painAreas[k].notes, view)}) = 1)
  /\ [][ \/ painAreas' = painAreas
         \/ \A view \in Views :
              IF ClickAccepted'
              THEN filterByView(painAreas', view)
                     = filterByView(painAreas, view)
                         \o (IF view = currentView THEN <<NewArea'>> ELSE <<>>)
              ELSE LET before == filterByView(painAreas, view)
                       after == filterByView(painAreas', view)
                   IN  \A k \in 1..Len(after) : \E i \in 1..Len(before) :
                         /\ after[k].id = before[i].id
                         /\ after[k].region = before[i].region
                         /\ after[k].coordinates = before[i].coordinates
                         /\ after[k].notes = before[i].notes ]_vars

C11_Witness ==
  /\ ClickAccepted
  /\ Len(painAreas) = 2
  /\ Len(filterByView(painAreas, "front")) = 1
  /\ Len(filterByView(painAreas, "back")) = 1
  /\ currentView = "front"

\* C12: of two accepted clicks with no other event between them, the second
\* leaves the store with the mark of the first where it was and its own mark
\* after it.
C12_BothClicksStored ==
  [][ (ClickAccepted /\ ClickAccepted')
      => LET n == Len(painAreas)
         IN  /\ Len(painAreas') = n + 1
             /\ painAreas'[n] = painAreas[n]
             /\ painAreas'[n].coordinates
                  = [x |-> Div085(LastClickX), y |-> Div085(LastClickY)]
             /\ painAreas'[n + 1].coordinates
                  = [x |-> Div085(LastClickX'), y |-> Div085(LastClickY')] ]_vars

C12_Witness ==
  /\ ClickAccepted
  /\ last.chain
  /\ Len(painAreas) = MaxAreas
  /\ painAreas[MaxAreas - 1].id # painAreas[MaxAreas].id

\* C13: what the component shows is the container's painAreas; an accepted
\* click, a stored intensity and a removal are in the container's painAreas
\* when their handler is over; and step navigation leaves painAreas as it is.
C13_MirroredAndKept ==
  /\ [](formData.painAreas = painAreas)
  /\ [][ /\ last'.op = "step" => painAreas' = painAreas
         /\ ClickAccepted'
              => /\ Len(painAreas') = Len(painAreas) + 1
                 /\ NewArea'.coordinates
                      = [x |-> Div085(LastClickX'), y |-> Div085(LastClickY')]
         /\ (last'.op = "intensity" /\ last'.outcome = "stored")
              => painAreas'[selectedPainArea].intensity = last'.arg
         /\ last'.op = "remove"
              => \A k \in 1..Len(painAreas') : painAreas'[k].id # last'.arg ]_vars

C13_Witness ==
  /\ last.op = "step"
  /\ currentStep = PainMappingStepNo
  /\ Len(painAreas) = MaxAreas
  /\ painAreas[1].intensity = SliderMax

\* C14: in every step the marks that were in the store and still are keep
\* their id and their region, in their order; only a removal takes marks out.
C14_IdRegionFrozen ==
  [][ LET kept == IF ClickAccepted'
                  THEN SubSeq(painAreas', 1, Len(painAreas') - 1)
                  ELSE painAreas'
      IN  \/ kept = painAreas
          \/ /\ \E f \in [1..Len(kept) -> 1..Len(painAreas)] :
                   /\ \A a, b \in 1..Len(kept) : a < b => f[a] < f[b]
                   /\ \A k \in 1..Len(kept) :
                        /\ kept[k].id = painAreas[f[k]].id
                        /\ kept[k].region = painAreas[f[k]].region
             /\ last'.op # "remove" => Len(kept) = Len(painAreas) ]_vars

C14_Witness ==
  /\ last.op = "remove"
  /\ Len(painAreas) = 1
  /\ painAreas[1].intensity = SliderMax
  /\ painAreas[1].notes[2] # currentView

C16_EmptyCatalogNoMatch ==
  [][ (last'.op = "click" /\ currentView \in catalogEmpty)
      => /\ painAreas' = painAreas
         /\ selectedPainAreaId' = selectedPainAreaId
         /\ last'.outcome.kind
              \in {"outside", "notReady", "outsideNatural", "transparent",
                   "emptyCatalog"} ]_vars

C16_Witness ==
  /\ last.op = "click"
  /\ last.outcome.kind = "emptyCatalog"
  /\ last.outcome.alpha = <<255>>
  /\ canvas.image = currentView
  /\ catalogEmpty = {currentView}

\* C17: an accepted click puts one mark behind the marks that were in the
\* store and leaves those as they were, also when a mark of the same region
\* and the same coordinates is among them.
C17_AppendsOne ==
  [][ ClickAccepted' => painAreas' = painAreas \o <<NewArea'>> ]_vars

C17_Witness ==
  /\ ClickAccepted
  /\ Len(painAreas) = 2
  /\ painAreas[1].region = painAreas[2].region
  /\ painAreas[1].coordinates = painAreas[2].coordinates

\* C18: an intensity change to a value in 0..10 keeps the number and order of
\* the marks, every mark's id, region, coordinates and notes, and the
\* intensity of every mark whose id is not the selected one; the selected
\* mark gets the value; with no mark selected the store is unchanged.
C18_IntensityOnlyTarget ==
  [][ (last'.op = "intensity" /\ last'.arg \in SliderMin..SliderMax)
      => /\ Len(painAreas') = Len(painAreas)
         /\ \A i \in 1..Len(painAreas) :
              /\ painAreas'[i].id = painAreas[i].id
              /\ painAreas'[i].region = painAreas[i].region
              /\ painAreas'[i].coordinates = painAreas[i].coordinates
              /\ painAreas'[i].notes = painAreas[i].notes
              /\ painAreas[i].id # selectedPainAreaId
                   => painAreas'[i].intensity = painAreas[i].intensity
         /\ selectedPainArea # 0
              => painAreas'[selectedPainArea].intensity = last'.arg
         /\ selectedPainArea = 0 => painAreas' = painAreas ]_vars

C18_Witness ==
  /\ last.op = "intensity"
  /\ last.outcome = "stored"
  /\ last.arg = SliderMin
  /\ Len(painAreas) = 2
  /\ painAreas[1].id # painAreas[2].id
  /\ painAreas[1].intensity = SliderMin
  /\ painAreas[2].intensity = DefaultIntensity

\* C19: the mark of an accepted click has the name of a hotspot of the active
\* view as its region, intensity 5, and as its notes the view and that
\* hotspot's group id, followed by the hotspot's name exactly when it is a
\* detail hotspot.
C19_RecordFields ==
  [][ ClickAccepted'
      => LET hs == hotspotsToSearch(currentView)
         IN  \E i \in 1..Len(hs) :
               /\ NewArea'.region = hs[i].name
               /\ NewArea'.intensity = 5
               /\ NewArea'.notes
                    = IF hs[i].isDetail
                      THEN <<"View: ", currentView, ", RegionID: ", hs[i].id,
                             ", Detail: ", hs[i].name>>
                      ELSE <<"View: ", currentView, ", RegionID: ", hs[i].id>> ]_vars

C19_Witness ==
  /\ ClickAccepted
  /\ canvas.image = currentView
  /\ Len(NewArea.notes) = 6
  /\ NewArea.notes[6] = NewArea.region

\* C20: a click is accepted only on a canvas that holds the image of the
\* view that was active at the click.
C20_RasterOfActiveView ==
  ClickAccepted => canvas.image = currentView

\* C21: a click inside the displayed rectangle on a canvas of non-zero size
\* is sampled at the natural pixel nearest to click / displayed size *
\* natural size (halves upwards) when that pixel is on the canvas, and is
\* otherwise rejected with no sample taken.
C21_SampledAtNaturalPixel ==
  [][ ( /\ last'.op = "click"
        /\ LastClickX' >= 0 /\ LastClickX' <= ImageWidth
        /\ LastClickY' >= 0 /\ LastClickY' <= ImageHeight
        /\ canvas.width > 0 /\ canvas.height > 0 )
      => LET px == CHOOSE p \in 0..canvas.width :
                     /\ ImageWidth * (2 * p - 1) <= 2 * LastClickX' * canvas.width
                     /\ 2 * LastClickX' * canvas.width < ImageWidth * (2 * p + 1)
             py == CHOOSE p \in 0..canvas.height :
                     /\ ImageHeight * (2 * p - 1) <= 2 * LastClickY' * canvas.height
                     /\ 2 * LastClickY' * canvas.height < ImageHeight * (2 * p + 1)
         IN  IF px < canvas.width /\ py < canvas.height
             THEN /\ last'.outcome.at = <<px, py>>
                  /\ last'.outcome.alpha = <<PixelAlpha(canvas, px, py)>>
             ELSE /\ last'.outcome.at = null
                  /\ last'.outcome.alpha = null
                  /\ painAreas' = painAreas
                  /\ selectedPainAreaId' = selectedPainAreaId ]_vars

C21_Witness ==
  /\ last.op = "click"
  /\ last.arg = <<2, 1>>
  /\ last.outcome.at = <<2, 1>>
  /\ canvas.image = currentView
  /\ canvas.width = NaturalWidth

\* Every entry of both tables has x, y, width and height between 0 and 1
\* (0 and 1000 thousandths).
CatalogsInUnitSquare ==
  \A view \in Views : \A i \in 1..Len(Catalog(view)) :
    LET h == Catalog(view)[i]
    IN  /\ h.x >= 0 /\ h.x <= 1000
        /\ h.y >= 0 /\ h.y <= 1000
        /\ h.width >= 0 /\ h.width <= 1000
        /\ h.height >= 0 /\ h.height <= 1000

\* C22: every entry of both catalogs has x, y, width and height within
\* [0, 1], and the table searched for a view is at all times the table the
\* component file defines for it, entry for entry.
C22_CatalogInUnitSquare ==
  /\ CatalogsInUnitSquare
  /\ \A view \in Views :
       /\ view \notin catalogEmpty
       /\ Len(hotspotsToSearch(view)) = Len(Catalog(view))

C22_Witness ==
  /\ last.op = "remove"
  /\ Len(painAreas) = 1
  /\ painAreas[1].intensity = SliderMin
  /\ currentView = "front"
  /\ canvas.image = "front"

\* C23: the selection is null or the id of a mark in the store; removing the
\* selected mark clears the selection and removing another mark leaves it.
C23_SelectionInStore ==
  /\ [](\/ selectedPainAreaId = null
        \/ \E i \in 1..Len(painAreas) : painAreas[i].id = selectedPainAreaId)
  /\ [][ last'.op = "remove"
         => selectedPainAreaId'
              = IF last'.arg = selectedPainAreaId THEN null
                ELSE selectedPainAreaId ]_vars

C23_Witness ==
  /\ last.op = "remove"
  /\ selectedPainAreaId # null
  /\ Len(painAreas) = 1
  /\ painAreas[1].id = selectedPainAreaId
  /\ last.arg # selectedPainAreaId
  /\ last.arg \in issuedIds

\* C24: whenever a mark is selected it carries the tag of the view shown.
C24_SelectionOfShownView ==
  selectedPainArea # 0
    => NotesInclude(formData.painAreas[selectedPainArea].notes, currentView)

\* C26: the picture posted with a label shows the view of that label; the
\* back view is set only when the front capture is over, by a failed shot or
\* by the response to its upload; and a failed shot or upload leaves the
\* painMapImage fields as they are and lets the run go on to the next view.
C26_CaptureLabelsMatchViews ==
  /\ [](\A label \in Views : shots[label] \in {"none", label})
  /\ [][ /\ (capture.view = "front" /\ capture'.view = "back")
              => \/ capture.pc = "upload"
                 \/ capture.pc = "wait" /\ last'.outcome = "failed"
         /\ (last'.op \in {"shot", "upload"} /\ last'.outcome = "failed")
              => /\ painMapImage' = painMapImage
                 /\ capture'.pc = IF capture.view = "front" THEN "wait" ELSE "idle" ]_vars

\* The group ids of the front table are in 1..24, those of the back table in
\* 25..45.
CatalogIdsByView ==
  /\ \A i \in 1..Len(Catalog("front")) : Catalog("front")[i].id \in 1..24
  /\ \A i \in 1..Len(Catalog("back")) : Catalog("back")[i].id \in 25..45

\* C25: every mark carries the tag of exactly one view, its RegionID is a
\* group id of that view's catalog (1..24 front, 25..45 back), the two
\* filters share no mark and together hold the whole store; and the tag and
\* the RegionID of a new mark are the active view and a group id of the
\* catalog searched.
C25_OneTagOfCreationView ==
  /\ [](/\ CatalogIdsByView
        /\ \A k \in 1..Len(painAreas) :
             /\ Cardinality({view \in Views :
                               NotesInclude(painAreas[k].notes, view)}) = 1
             /\ NotesInclude(painAreas[k].notes, "front")
                  => painAreas[k].notes[4] \in 1..24
             /\ NotesInclude(painAreas[k].notes, "back")
                  => painAreas[k].notes[4] \in 25..45
        /\ Len(filterByView(painAreas, "front"))
             + Len(filterByView(painAreas, "back")) = Len(painAreas))
  /\ [][ ClickAccepted'
         => /\ NotesInclude(NewArea'.notes, currentView)
            /\ \E i \in 1..Len(hotspotsToSearch(currentView)) :
                 /\ hotspotsToSearch(currentView)[i].name = NewArea'.region
                 /\ hotspotsToSearch(currentView)[i].id = NewArea'.notes[4] ]_vars

C25_Witness ==
  /\ Len(painAreas) = 2
  /\ painAreas[1].notes[2] = "front" /\ painAreas[1].notes[4] \in 1..24
  /\ painAreas[2].notes[2] = "back" /\ painAreas[2].notes[4] \in 25..45
  /\ currentView = "back"
  /\ ClickAccepted

InFlight == {k \in 1..Len(attempts) : attempts[k].pc \in {"save", "email"}}
Succeeded == {k \in 1..Len(attempts) : attempts[k].pc = "sent"}

C28_EmailAfterSave ==
  /\ [](/\ \A k \in 1..Len(attempts) :
             /\ attempts[k].email # "none" => attempts[k].save = "ok"
             /\ attempts[k].save \in {"status", "rejected"}
                  => attempts[k].pc = "error"
             /\ attempts[k].pc = "sent"
                  => attempts[k].save = "ok" /\ attempts[k].email = "ok"
        /\ isSubmissionSuccessful => Succeeded # {}
        /\ emailStateRef = "sent" => Succeeded # {})
  /\ [][ /\ (last'.op = "saveResponse" /\ last'.outcome # "ok")
              => /\ emailStateRef' = "error"
                 /\ attempts'[last'.arg].email = "none"
                 /\ isSubmissionSuccessful' = isSubmissionSuccessful
         /\ (last'.op = "saveResponse" /\ last'.outcome = "ok")
              => attempts'[last'.arg].email = "pending"
         /\ \A k \in 1..Len(attempts) :
              attempts[k].pc = "error" => attempts'[k] = attempts[k] ]_vars

C28_Witness ==
  /\ last.op = "emailResponse"
  /\ Len(attempts) = 2
  /\ attempts[1].save = "status"
  /\ attempts[1].email = "none"
  /\ attempts[2].pc = "sent"
  /\ isSubmissionSuccessful

\* C29: a file written by an upload route lies inside the session
\* directory, which is the directory of the sanitized formSessionId right
\* under baseAssessmentFilesDir; and a pain-map request without imageData,
\* view or formSessionId is answered 400 and writes nothing.
C29_WrittenInsideSessionDir ==
  /\ writtenPath # null
       => /\ Inside(writtenPath, finalSessionDir)
          /\ finalSessionDir
               = PathJoin(baseAssessmentFilesDir,
                          SanitizeSessionId(IF request.formSessionId = <<>>
                                            THEN <<"default_session">>
                                            ELSE request.formSessionId))
  /\ ( /\ response # 0
       /\ request.route \in {"/pain-map", "/api/upload/pain-map"}
       /\ (~request.imageData \/ request.view = <<>>
             \/ request.formSessionId = <<>>) )
       => response = 400 /\ writtenPath = null
====
